---- MODULE Spec2Model ----
(***************************************************************************)
(* A model of the jesse trading runtime: Portfolio (core/portfolio.py),    *)
(* the backtest and paper executors (execution/backtest.py, paper.py),     *)
(* the SL/TP monitor (execution/sl_tp.py) and the backtest engine loop     *)
(* (core/engine.py).                                                       *)
(*                                                                         *)
(* Money and prices are Python floats in the source.  The model uses       *)
(* integers: a size_percent p is the integer 100*p, and the two float      *)
(* divisions of the executors (size_usd / price, pnl / size_usd) round     *)
(* down.  Optional values (x | None) are sets: {} is None, {v} is v.       *)
(***************************************************************************)
EXTENDS Integers, Sequences, FiniteSets, TLC

VARIABLES
    portfolio,      \* Portfolio: initial_balance, balance, positions, trades, current_price
    current_time,   \* BacktestExecutor.current_time
    now,            \* the wall clock PaperExecutor reads (datetime.now(UTC))
    nextId,         \* Position.generate_id: the next fresh id
    pc,             \* position of the running routine
    error,          \* the exception that left the last call ("none" when it returned)
    n_backtest,     \* len(backtest_candles) of run_backtest
    idx,            \* how many backtest candles the main loop has started
    candle,         \* the candle of the current per-candle step
    snapshot,       \* list(self.portfolio.positions) still to visit in a loop
    pending,        \* how many signals of on_candle's list the loop has not reached
    emitted,        \* how many signals on_candle has returned so far in the run
    known_ids,      \* how many ids had been issued when on_candle was called
    cur_signal,     \* the signal of the _execute_signal call in flight
    exec_price,     \* the current_price argument of the executor call in flight
    result,         \* the executor's return value awaiting the caller
    tick_trades,    \* the list check_price_update returned last
    opened,         \* history: every position passed to Portfolio.open_position
    last_open,      \* history: the positions open when the main loop ended
    m_position,     \* SLTPMonitor call: position
    m_candle,       \*                   candle
    m_available,    \*                   available_candles (optional dict)
    m_tf,           \*                   current_timeframe
    m_op,           \*                   which method was called
    m_result,       \*                   its return value
    timeframes,     \* strategy.timeframes
    n_fetched,      \* len(candles_1m) of run_backtest
    agg_fed,        \* how many 1m candles the engine's aggregator has processed
    init_calls,     \* how many times strategy.on_init was called
    init_data,      \* the snapshot on_init received
    candle_calls,   \* how many times strategy.on_candle was called
    equity_curve,   \* equity_curve of run_backtest
    results,        \* the BacktestResults run_backtest returned
    persist,        \* Engine.persist
    db,             \* the Database: connection, tables, and the calls made on it
    agg,            \* a TimeframeAggregator (optional: none before construction)
    a_next,         \* timestamp of the next 1m candle of the stream
    a_pattern,      \* which candle stream the provider delivers
    a_fed,          \* history: the 1m candles fed to the aggregator
    a_mtf,          \* the MultiTimeframeData update returned last
    a_error,        \* the exception of the aggregator's constructor
    q_op,           \* a timeframe query: the function called
    q_label,        \*                    its timeframe argument
    q_error,        \*                    the exception it raised
    q_value,        \*                    the value it returned
    executor,       \* the executor the Engine was constructed with
    alerter,        \* whether the Engine has an alerter (None when it has not)
    error_alerts,   \* the messages passed to alerter.on_error
    outcome,        \* what Engine.run gave its caller
    running,        \* LiveDataProvider._running
    consecutive_failures,   \* LiveDataProvider._consecutive_failures
    cvd_accumulator,        \* LiveDataProvider._cvd_accumulator (timeframe to optional sum)
    ws,             \* whether LiveDataProvider._ws is a connection (not None)
    backoff,        \* the local backoff of the subscribe call in flight
    closing,        \* whether an unsubscribe call is awaiting ws.close()
    sleeps,         \* history: the delays slept since the last successful connection
    delivered,      \* history: the candles passed to the callback
    cvd_sum,        \* history: signed volume closed per timeframe since the last clear
    subscribe_calls,        \* how many times subscribe was called
    n_messages,     \* how many messages the connection has delivered
    callback_errors,        \* how many callback exceptions _listen logged
    in_flight,      \* how many callback calls have started and not finished
    mode,           \* whether the run records its inputs, replays them, or neither
    script,         \* the inputs recorded (and, in the replay, those not yet used)
    first_run,      \* the ledger and equity curve of the recorded run
    id_offset,      \* how many ids had been issued when the replay began
    market,         \* which candles and stop levels the run's inputs may hold
    trade_list,     \* the trades handed to the metric functions
    equity_points,  \* the equity curve handed to calculate_max_drawdown
    report,         \* what the metric functions returned
    since,          \* _fetch_from_exchange: the local since
    end_ms,         \* _fetch_from_exchange: the parameter end_ms
    all_candles,    \* _fetch_from_exchange: the timestamps of all_candles
    retries,        \* history: failed requests since the last successful one
    slept           \* history: the seconds of the last asyncio.sleep

engineVars == <<current_time, n_backtest, idx, candle, snapshot, last_open>>
callVars == <<pending, emitted, known_ids, cur_signal, exec_price, result>>
monitorVars == <<m_position, m_candle, m_available, m_tf, m_op, m_result>>
runVars == <<timeframes, n_fetched, agg_fed, init_calls, init_data, candle_calls,
             equity_curve, results>>
dbVars == <<persist, db>>
aggVars == <<agg, a_next, a_pattern, a_fed, a_mtf, a_error, q_op, q_label, q_error, q_value>>
outVars == <<executor, alerter, error_alerts, outcome>>
liveVars == <<running, consecutive_failures, cvd_accumulator, ws, backoff, closing, sleeps,
              delivered, cvd_sum, subscribe_calls, n_messages, callback_errors, in_flight>>
twinVars == <<mode, script, first_run, id_offset>>
metricVars == <<trade_list, equity_points, report>>
fetchVars == <<since, end_ms, all_candles, retries, slept>>
sideVars == <<market, metricVars, fetchVars>>
vars == <<portfolio, current_time, now, nextId, pc, error, n_backtest, idx, candle,
          snapshot, pending, emitted, known_ids, cur_signal, exec_price, result,
          tick_trades, opened, last_open, m_position, m_candle, m_available, m_tf, m_op,
          m_result, runVars, dbVars, aggVars, outVars, liveVars, twinVars, sideVars>>

-----------------------------------------------------------------------------
(* Bounds of the model *)

\* backtest candles after the warm-up prefix
NumCandles == 2

\* signals the strategy returns over the whole run
MaxSignals == 3

\* calls the paper-executor client makes
MaxClock == 3

\* open_position calls the direct Portfolio client makes
MaxDirect == 2

\* sub-candles supplied per timeframe to the monitor
MaxSub == 2

\* 1m candles a client feeds to its aggregator
MaxFeed == 15

-----------------------------------------------------------------------------
(* Optional values *)

None == {}
Some(v) == {v}
Val(o) == CHOOSE x \in o : TRUE

Max(a, b) == IF a >= b THEN a ELSE b

Min(a, b) == IF a <= b THEN a ELSE b

Range(seq) == {seq[i] : i \in 1..Len(seq)}

-----------------------------------------------------------------------------
(* core/types.py *)

\* Position.unrealized_pnl
UnrealizedPnl(position, current_price) ==
    IF position.side = "long"
    THEN (current_price - position.entry_price) * position.size
    ELSE (position.entry_price - current_price) * position.size

\* Position.generate_id: uuid4().hex[:12], a fresh id on every call
GenerateId == nextId

\* Candle, by the fields the executors, the monitor and the engine read
MkCandle(ts, lo, hi, cl) == [timestamp |-> ts, low |-> lo, high |-> hi, close |-> cl]

-----------------------------------------------------------------------------
(* core/portfolio.py *)

\* Portfolio(initial_balance): __post_init__ sets balance
NewPortfolio(initial_balance) ==
    [initial_balance |-> initial_balance, balance |-> initial_balance,
     positions |-> <<>>, trades |-> <<>>, current_price |-> 0]

Portfolio_update_price(pf, price) == [pf EXCEPT !.current_price = price]

\* sum(p.unrealized_pnl(price) for p in positions)
RECURSIVE SumUnrealized(_, _)
SumUnrealized(positions, price) ==
    IF positions = <<>> THEN 0
    ELSE UnrealizedPnl(Head(positions), price) + SumUnrealized(Tail(positions), price)

Portfolio_equity(pf) == pf.balance + SumUnrealized(pf.positions, pf.current_price)

Portfolio_get_position(pf, position_id) ==
    LET Match(p) == p.id = position_id
        found == SelectSeq(pf.positions, Match)
    IN  IF found = <<>> THEN None ELSE Some(Head(found))

Portfolio_open_position_CreditMutant(pf, position) ==
    [pf EXCEPT !.positions = Append(@, position), !.balance = @ + position.size_usd]

Portfolio_open_position(pf, position) ==
    [pf EXCEPT !.positions = Append(@, position), !.balance = @ - position.size_usd]

\* close_position returns normally iff some position was removed
Portfolio_close_position_found(pf, position_id) ==
    \E i \in 1..Len(pf.positions) : pf.positions[i].id = position_id

Portfolio_close_position_PnlOnlyMutant(pf, position_id, trade) ==
    LET Keep(p) == p.id # position_id
    IN  IF ~Portfolio_close_position_found(pf, position_id) THEN pf
        ELSE [pf EXCEPT !.positions = SelectSeq(@, Keep),
                        !.trades = Append(@, trade),
                        !.balance = @ + trade.pnl]

\* a close_position that records the trade and leaves the position open
Portfolio_close_position_KeepMutant(pf, position_id, trade) ==
    IF ~Portfolio_close_position_found(pf, position_id) THEN pf
    ELSE [pf EXCEPT !.trades = Append(@, trade),
                    !.balance = @ + trade.size_usd + trade.pnl]

\* a close_position without the check that a position was removed
Portfolio_close_position_NoCheckMutant(pf, position_id, trade) ==
    LET Keep(p) == p.id # position_id
    IN  [pf EXCEPT !.positions = SelectSeq(@, Keep),
                   !.trades = Append(@, trade),
                   !.balance = @ + trade.size_usd + trade.pnl]

\* the portfolio after close_position; unchanged when it raises ValueError
Portfolio_close_position(pf, position_id, trade) ==
    LET Keep(p) == p.id # position_id
    IN  IF ~Portfolio_close_position_found(pf, position_id) THEN pf
        ELSE [pf EXCEPT !.positions = SelectSeq(@, Keep),
                        !.trades = Append(@, trade),
                        !.balance = @ + trade.size_usd + trade.pnl]

-----------------------------------------------------------------------------
(* Return values of the executors.  An executor method is given the        *)
(* portfolio by reference; the operators return, with the method's value,  *)
(* the portfolio as the call leaves it.                                    *)

NoneResult == [kind |-> "none"]
PositionResult(p) == [kind |-> "position", position |-> p]
TradeResult(t) == [kind |-> "trade", trade |-> t]
Returns(value, pf) == [ret |-> value, portfolio |-> pf]

-----------------------------------------------------------------------------
(* execution/backtest.py *)

\* _UNSET_TIME = datetime.min
UnsetTime == -1

\* BacktestExecutor(initial_balance=10_000.0)
InitialBalance == 10000

build_trade(position, exit_price, exit_time, reason) ==
    LET pnl == IF position.side = "long"
               THEN (exit_price - position.entry_price) * position.size
               ELSE (position.entry_price - exit_price) * position.size
        pnl_percent == IF position.size_usd > 0
                       THEN (pnl * 100) \div position.size_usd ELSE 0
    IN  [id |-> position.id, side |-> position.side,
         entry_price |-> position.entry_price, exit_price |-> exit_price,
         entry_time |-> position.entry_time, exit_time |-> exit_time,
         size |-> position.size, size_usd |-> position.size_usd,
         pnl |-> pnl, pnl_percent |-> pnl_percent, exit_reason |-> reason]

\* the Position both executors build once a signal has passed validation
NewPosition(signal, price, size_usd, entry_time) ==
    [id |-> GenerateId, side |-> signal.direction, entry_price |-> price,
     entry_time |-> entry_time, size |-> size_usd \div price, size_usd |-> size_usd,
     stop_loss |-> Val(signal.stop_loss), take_profit |-> Val(signal.take_profit)]

\* an executor that opens the position on the portfolio itself
BacktestExecutor_open_position_MutatingMutant(signal, price, pf) ==
    IF signal.size_percent = None \/ signal.stop_loss = None \/ signal.take_profit = None
    THEN Returns(NoneResult, pf)
    ELSE LET size_usd == (Portfolio_equity(pf) * Val(signal.size_percent)) \div 100
         IN  IF size_usd <= 0 THEN Returns(NoneResult, pf)
             ELSE IF size_usd > pf.balance THEN Returns(NoneResult, pf)
             ELSE IF price <= 0 THEN Returns(NoneResult, pf)
             ELSE Returns(PositionResult(NewPosition(signal, price, size_usd, current_time)),
                          Portfolio_open_position(
                              pf, NewPosition(signal, price, size_usd, current_time)))

\* an _open_position without the balance check
BacktestExecutor_open_position_NoBalanceMutant(signal, price, pf) ==
    IF signal.size_percent = None \/ signal.stop_loss = None \/ signal.take_profit = None
    THEN Returns(NoneResult, pf)
    ELSE LET size_usd == (Portfolio_equity(pf) * Val(signal.size_percent)) \div 100
         IN  IF size_usd <= 0 THEN Returns(NoneResult, pf)
             ELSE IF price <= 0 THEN Returns(NoneResult, pf)
             ELSE Returns(PositionResult(NewPosition(signal, price, size_usd, current_time)), pf)

\* a balance check that also rejects size_usd = balance
BacktestExecutor_open_position_GeqMutant(signal, price, pf) ==
    IF signal.size_percent = None \/ signal.stop_loss = None \/ signal.take_profit = None
    THEN Returns(NoneResult, pf)
    ELSE LET size_usd == (Portfolio_equity(pf) * Val(signal.size_percent)) \div 100
         IN  IF size_usd <= 0 THEN Returns(NoneResult, pf)
             ELSE IF size_usd >= pf.balance THEN Returns(NoneResult, pf)
             ELSE IF price <= 0 THEN Returns(NoneResult, pf)
             ELSE Returns(PositionResult(NewPosition(signal, price, size_usd, current_time)), pf)

BacktestExecutor_open_position(signal, price, pf) ==
    IF signal.size_percent = None \/ signal.stop_loss = None \/ signal.take_profit = None
    THEN Returns(NoneResult, pf)
    ELSE LET size_usd == (Portfolio_equity(pf) * Val(signal.size_percent)) \div 100
         IN  IF size_usd <= 0 THEN Returns(NoneResult, pf)
             ELSE IF size_usd > pf.balance THEN Returns(NoneResult, pf)
             ELSE IF price <= 0 THEN Returns(NoneResult, pf)
             ELSE Returns(PositionResult(NewPosition(signal, price, size_usd, current_time)), pf)

\* a close without an id that picks the position by the value of its id
BacktestExecutor_close_by_signal_IdOrderMutant(signal, price, pf) ==
    IF signal.position_id # None
    THEN LET pos == Portfolio_get_position(pf, Val(signal.position_id))
         IN  IF pos = None THEN Returns(NoneResult, pf)
             ELSE Returns(TradeResult(build_trade(Val(pos), price, current_time, "signal")), pf)
    ELSE IF pf.positions # <<>>
         THEN LET marked == {k \in 1..Len(pf.positions) : pf.positions[k].id % 3 = 2}
                  k == IF marked = {} THEN 1 ELSE CHOOSE i \in marked : TRUE
              IN  Returns(TradeResult(build_trade(pf.positions[k], price, current_time,
                                                  "signal")), pf)
         ELSE Returns(NoneResult, pf)

BacktestExecutor_close_by_signal_LastMutant(signal, price, pf) ==
    IF signal.position_id # None
    THEN LET pos == Portfolio_get_position(pf, Val(signal.position_id))
         IN  IF pos = None THEN Returns(NoneResult, pf)
             ELSE Returns(TradeResult(build_trade(Val(pos), price, current_time, "signal")), pf)
    ELSE IF pf.positions # <<>>
         THEN Returns(TradeResult(build_trade(pf.positions[Len(pf.positions)], price,
                                              current_time, "signal")), pf)
         ELSE Returns(NoneResult, pf)

BacktestExecutor_close_by_signal(signal, price, pf) ==
    IF signal.position_id # None
    THEN LET pos == Portfolio_get_position(pf, Val(signal.position_id))
         IN  IF pos = None THEN Returns(NoneResult, pf)
             ELSE Returns(TradeResult(build_trade(Val(pos), price, current_time, "signal")), pf)
    ELSE IF pf.positions # <<>>
         THEN Returns(TradeResult(build_trade(pf.positions[1], price, current_time, "signal")), pf)
         ELSE Returns(NoneResult, pf)

BacktestExecutor_execute(signal, current_price, pf) ==
    IF signal.direction \in {"long", "short"}
    THEN BacktestExecutor_open_position(signal, current_price, pf)
    ELSE IF signal.direction = "close"
         THEN BacktestExecutor_close_by_signal(signal, current_price, pf)
         ELSE Returns(NoneResult, pf)

BacktestExecutor_close_position(position, price, reason) ==
    build_trade(position, price, current_time, reason)

-----------------------------------------------------------------------------
(* execution/paper.py (on_position_change is None, its default) *)

Paper_build_trade(position, exit_price, exit_time, reason) ==
    LET pnl == IF position.side = "long"
               THEN (exit_price - position.entry_price) * position.size
               ELSE (position.entry_price - exit_price) * position.size
        pnl_percent == IF position.size_usd > 0
                       THEN (pnl * 100) \div position.size_usd ELSE 0
    IN  [id |-> position.id, side |-> position.side,
         entry_price |-> position.entry_price, exit_price |-> exit_price,
         entry_time |-> position.entry_time, exit_time |-> exit_time,
         size |-> position.size, size_usd |-> position.size_usd,
         pnl |-> pnl, pnl_percent |-> pnl_percent, exit_reason |-> reason]

PaperExecutor_open_position(signal, price, pf) ==
    IF signal.size_percent = None \/ signal.stop_loss = None \/ signal.take_profit = None
    THEN Returns(NoneResult, pf)
    ELSE LET size_usd == (Portfolio_equity(pf) * Val(signal.size_percent)) \div 100
         IN  IF size_usd <= 0 THEN Returns(NoneResult, pf)
             ELSE IF size_usd > pf.balance THEN Returns(NoneResult, pf)
             ELSE IF price <= 0 THEN Returns(NoneResult, pf)
             ELSE Returns(PositionResult(NewPosition(signal, price, size_usd, now)), pf)

PaperExecutor_close_by_signal(signal, price, pf) ==
    IF signal.position_id # None
    THEN LET pos == Portfolio_get_position(pf, Val(signal.position_id))
         IN  IF pos = None THEN Returns(NoneResult, pf)
             ELSE Returns(TradeResult(Paper_build_trade(Val(pos), price, now, "signal")), pf)
    ELSE IF pf.positions # <<>>
         THEN Returns(TradeResult(Paper_build_trade(pf.positions[1], price, now, "signal")), pf)
         ELSE Returns(NoneResult, pf)

PaperExecutor_execute(signal, current_price, pf) ==
    IF signal.direction \in {"long", "short"}
    THEN PaperExecutor_open_position(signal, current_price, pf)
    ELSE IF signal.direction = "close"
         THEN PaperExecutor_close_by_signal(signal, current_price, pf)
         ELSE Returns(NoneResult, pf)

PaperExecutor_close_position(position, price, reason) ==
    Paper_build_trade(position, price, now, reason)

\* PaperExecutor._check_sl_tp: a tick against one position
\* a check that reports the target first when both levels are hit
PaperExecutor_check_sl_tp_TargetFirstMutant(position, price) ==
    LET sl_hit == IF position.side = "long" THEN price <= position.stop_loss
                  ELSE price >= position.stop_loss
        tp_hit == IF position.side = "long" THEN price >= position.take_profit
                  ELSE price <= position.take_profit
    IN  IF tp_hit THEN "take_profit" ELSE IF sl_hit THEN "stop_loss" ELSE "none"

PaperExecutor_check_sl_tp(position, price) ==
    LET sl_hit == IF position.side = "long" THEN price <= position.stop_loss
                  ELSE price >= position.stop_loss
        tp_hit == IF position.side = "long" THEN price >= position.take_profit
                  ELSE price <= position.take_profit
    IN  IF sl_hit THEN "stop_loss" ELSE IF tp_hit THEN "take_profit" ELSE "none"

\* a loop that returns the trades and leaves the positions on the portfolio
RECURSIVE PaperExecutor_check_loop_NoCloseMutant(_, _, _, _)
PaperExecutor_check_loop_NoCloseMutant(todo, price, pf, triggered) ==
    IF todo = <<>> THEN [portfolio |-> pf, trades |-> triggered, error |-> "none"]
    ELSE LET position == Head(todo)
             reason == PaperExecutor_check_sl_tp(position, price)
         IN  IF reason = "none"
             THEN PaperExecutor_check_loop_NoCloseMutant(Tail(todo), price, pf, triggered)
             ELSE LET exit_price == IF reason = "stop_loss" THEN position.stop_loss
                                    ELSE position.take_profit
                      trade == Paper_build_trade(position, exit_price, now, reason)
                  IN  PaperExecutor_check_loop_NoCloseMutant(
                          Tail(todo), price,
                          [pf EXCEPT !.trades = Append(@, trade),
                                     !.balance = @ + trade.size_usd + trade.pnl],
                          Append(triggered, trade))

\* the loop of check_price_update over list(portfolio.positions)
RECURSIVE PaperExecutor_check_loop(_, _, _, _)
PaperExecutor_check_loop(todo, price, pf, triggered) ==
    IF todo = <<>> THEN [portfolio |-> pf, trades |-> triggered, error |-> "none"]
    ELSE LET position == Head(todo)
             reason == PaperExecutor_check_sl_tp(position, price)
         IN  IF reason = "none"
             THEN PaperExecutor_check_loop(Tail(todo), price, pf, triggered)
             ELSE LET exit_price == IF reason = "stop_loss" THEN position.stop_loss
                                    ELSE position.take_profit
                      trade == Paper_build_trade(position, exit_price, now, reason)
                  IN  IF ~Portfolio_close_position_found(pf, position.id)
                      THEN [portfolio |-> pf, trades |-> triggered, error |-> "ValueError"]
                      ELSE PaperExecutor_check_loop(
                               Tail(todo), price,
                               Portfolio_close_position(pf, position.id, trade),
                               Append(triggered, trade))

PaperExecutor_check_price_update(price, pf) ==
    LET updated == Portfolio_update_price(pf, price)
    IN  PaperExecutor_check_loop(updated.positions, price, updated, <<>>)

-----------------------------------------------------------------------------
(* core/timeframe.py *)

TIMEFRAME_ORDER == <<"1m", "5m", "15m", "1h", "4h", "1d", "1w">>

TF_MINUTES ==
    [tf \in {"1m", "5m", "15m", "1h", "4h", "1d", "1w"} |->
        CASE tf = "1m" -> 1 [] tf = "5m" -> 5 [] tf = "15m" -> 15 [] tf = "1h" -> 60
          [] tf = "4h" -> 240 [] tf = "1d" -> 1440 [] tf = "1w" -> 10080]

get_timeframe_minutes(tf) == TF_MINUTES[tf]

\* the next lower timeframe, None at 1m (tf is a known label)
get_lower_timeframe(tf) ==
    LET i == CHOOSE j \in 1..Len(TIMEFRAME_ORDER) : TIMEFRAME_ORDER[j] = tf
    IN  IF i = 1 THEN None ELSE Some(TIMEFRAME_ORDER[i - 1])

\* get_timeframe_minutes raises ValueError for a label not in _TF_MINUTES
get_timeframe_minutes_raises(tf) == tf \notin DOMAIN TF_MINUTES

\* get_lower_timeframe raises ValueError for a label not in TIMEFRAME_ORDER
get_lower_timeframe_raises(tf) == \A j \in 1..Len(TIMEFRAME_ORDER) : TIMEFRAME_ORDER[j] # tf

\* datetime fields of a timestamp; timestamps count minutes from
\* Monday 2024-01-01 00:00 UTC
Hour(ts) == (ts \div 60) % 24

Minute(ts) == ts % 60

IsoWeekday(ts) == ((ts \div 1440) % 7) + 1

is_week_boundary(ts) == IsoWeekday(ts) = 7 /\ Hour(ts) = 23 /\ Minute(ts) = 59

\* a completion on the first minute of a bucket
is_timeframe_complete_FirstMinuteMutant(tf, ts) ==
    LET minutes == get_timeframe_minutes(tf)
        minute_of_day == Hour(ts) * 60 + Minute(ts)
    IN  IF tf = "1w" THEN is_week_boundary(ts)
        ELSE IF tf = "1d" THEN Hour(ts) = 23 /\ Minute(ts) = 59
        ELSE minute_of_day % minutes = 0

is_timeframe_complete(tf, ts) ==
    LET minutes == get_timeframe_minutes(tf)
        minute_of_day == Hour(ts) * 60 + Minute(ts)
    IN  IF tf = "1w" THEN is_week_boundary(ts)
        ELSE IF tf = "1d" THEN Hour(ts) = 23 /\ Minute(ts) = 59
        ELSE (minute_of_day + 1) % minutes = 0

\* Candle with all its fields, as the aggregator reads it
FullCandle(ts, op, hi, lo, cl, vol, oi, cvd) ==
    [timestamp |-> ts, open |-> op, high |-> hi, low |-> lo, close |-> cl,
     volume |-> vol, open_interest |-> oi, cvd |-> cvd]

\* _AggregatingCandle(open_time=candle_1m.timestamp, ...)
NewAggregatingCandle(c) ==
    [open_time |-> c.timestamp, open |-> c.open, high |-> c.high, low |-> c.low,
     close |-> c.close, volume |-> c.volume, open_interest |-> c.open_interest,
     cvd |-> c.cvd]

\* a rolling high that keeps only the newest 1m high
AggregatingCandle_update_LastHighMutant(b, c) ==
    [b EXCEPT !.high = c.high,
              !.low = Min(b.low, c.low),
              !.close = c.close,
              !.volume = b.volume + c.volume,
              !.open_interest = c.open_interest,
              !.cvd = c.cvd]

AggregatingCandle_update(b, c) ==
    [b EXCEPT !.high = Max(b.high, c.high),
              !.low = Min(b.low, c.low),
              !.close = c.close,
              !.volume = b.volume + c.volume,
              !.open_interest = c.open_interest,
              !.cvd = c.cvd]

AggregatingCandle_to_candle(b) ==
    FullCandle(b.open_time, b.open, b.high, b.low, b.close, b.volume, b.open_interest, b.cvd)

\* max_history of TimeframeAggregator
DefaultMaxHistory == 525600

\* TimeframeAggregator.__post_init__ raises ValueError on an unknown label
TimeframeAggregator_post_init_raises(tfs) ==
    \E i \in 1..Len(tfs) : tfs[i] \notin DOMAIN TF_MINUTES

\* TimeframeAggregator(timeframes, max_history) after __post_init__
\* (timeframes is a list without repetitions)
TimeframeAggregator_post_init(tfs, max_history) ==
    [timeframes |-> tfs, max_history |-> max_history,
     history |-> [tf \in Range(tfs) |-> <<>>],
     building |-> [tf \in Range(tfs) \ {"1m"} |-> None]]

\* history[-n:] of Python
LastN(h, n) == IF n = 0 \/ n >= Len(h) THEN h ELSE SubSeq(h, Len(h) - n + 1, Len(h))

TimeframeAggregator_append_history(a, tf, c) ==
    LET history == Append(a.history[tf], c)
    IN  [a EXCEPT !.history[tf] = IF Len(history) > a.max_history
                                  THEN LastN(history, a.max_history)
                                  ELSE history]

\* _process_candle, the body of the loop over the higher timeframes
TimeframeAggregator_process_timeframe(a, tf, c) ==
    LET building == a.building[tf]
        started == [a EXCEPT !.building[tf] =
                        IF building = None THEN Some(NewAggregatingCandle(c))
                        ELSE Some(AggregatingCandle_update(Val(building), c))]
    IN  IF is_timeframe_complete(tf, c.timestamp)
        THEN [TimeframeAggregator_append_history(
                  started, tf, AggregatingCandle_to_candle(Val(started.building[tf])))
              EXCEPT !.building[tf] = None]
        ELSE started

RECURSIVE TimeframeAggregator_process_higher(_, _, _)
TimeframeAggregator_process_higher(a, i, c) ==
    IF i > Len(a.timeframes) THEN a
    ELSE TimeframeAggregator_process_higher(
             IF a.timeframes[i] = "1m" THEN a
             ELSE TimeframeAggregator_process_timeframe(a, a.timeframes[i], c),
             i + 1, c)

TimeframeAggregator_process_candle(a, c) ==
    TimeframeAggregator_process_higher(
        IF "1m" \in Range(a.timeframes)
        THEN TimeframeAggregator_append_history(a, "1m", c) ELSE a,
        1, c)

RECURSIVE TimeframeAggregator_warm_up(_, _)
TimeframeAggregator_warm_up(a, candles_1m) ==
    IF candles_1m = <<>> THEN a
    ELSE TimeframeAggregator_warm_up(
             TimeframeAggregator_process_candle(a, Head(candles_1m)), Tail(candles_1m))

TimeframeAggregator_build_mtf_data(a, latest_1m) ==
    [tf \in Range(a.timeframes) |->
        [latest |-> IF tf = "1m" THEN latest_1m
                    ELSE IF a.building[tf] # None
                         THEN AggregatingCandle_to_candle(Val(a.building[tf]))
                    ELSE IF a.history[tf] # <<>>
                         THEN a.history[tf][Len(a.history[tf])]
                    ELSE latest_1m,
         history |-> a.history[tf]]]

\* update: the aggregator afterwards and the snapshot returned
TimeframeAggregator_update(a, c) ==
    [agg |-> TimeframeAggregator_process_candle(a, c),
     mtf |-> TimeframeAggregator_build_mtf_data(TimeframeAggregator_process_candle(a, c), c)]

\* list(self._history.get(tf, []))
TimeframeAggregator_get_history(a, tf) ==
    IF tf \in DOMAIN a.history THEN a.history[tf] ELSE <<>>

-----------------------------------------------------------------------------
(* execution/sl_tp.py *)

SLTPMonitor_sl_hit(position, c) ==
    IF position.side = "long" THEN c.low <= position.stop_loss
    ELSE c.high >= position.stop_loss

SLTPMonitor_tp_hit(position, c) ==
    IF position.side = "long" THEN c.high >= position.take_profit
    ELSE c.low <= position.take_profit

\* available_candles.get(tf, [])
DictGet(d, key) == IF key \in DOMAIN d THEN d[key] ELSE <<>>

RECURSIVE SLTPMonitor_resolve_recursive(_, _, _, _)
RECURSIVE SLTPMonitor_resolve_scan(_, _, _, _)

\* a scan that starts at the last sub-candle
RECURSIVE SLTPMonitor_resolve_scan_BackwardMutant(_, _, _, _)
SLTPMonitor_resolve_scan_BackwardMutant(position, sub_candles, available_candles, next_tf) ==
    IF sub_candles = <<>> THEN "stop_loss"
    ELSE LET r == SLTPMonitor_resolve_recursive(position, sub_candles[Len(sub_candles)],
                                                available_candles, next_tf)
         IN  IF r # "none" THEN r
             ELSE SLTPMonitor_resolve_scan_BackwardMutant(
                      position, SubSeq(sub_candles, 1, Len(sub_candles) - 1),
                      available_candles, next_tf)

\* the for loop of _resolve_recursive over sub_candles
SLTPMonitor_resolve_scan(position, sub_candles, available_candles, next_tf) ==
    IF sub_candles = <<>> THEN "stop_loss"
    ELSE LET r == SLTPMonitor_resolve_recursive(position, Head(sub_candles),
                                                available_candles, next_tf)
         IN  IF r # "none" THEN r
             ELSE SLTPMonitor_resolve_scan(position, Tail(sub_candles),
                                           available_candles, next_tf)

SLTPMonitor_resolve_recursive(position, c, available_candles, current_timeframe) ==
    LET sl_hit == SLTPMonitor_sl_hit(position, c)
        tp_hit == SLTPMonitor_tp_hit(position, c)
    IN  IF sl_hit /\ tp_hit
        THEN LET next_tf == get_lower_timeframe(current_timeframe)
             IN  IF next_tf = None THEN "stop_loss"
                 ELSE LET sub_candles == DictGet(available_candles, Val(next_tf))
                      IN  IF sub_candles = <<>> THEN "stop_loss"
                          ELSE SLTPMonitor_resolve_scan(position, sub_candles,
                                                        available_candles, Val(next_tf))
        ELSE IF sl_hit THEN "stop_loss"
        ELSE IF tp_hit THEN "take_profit"
        ELSE "none"

SLTPMonitor_resolve(position, c, available_candles, current_timeframe) ==
    LET r == SLTPMonitor_resolve_recursive(position, c, available_candles, current_timeframe)
    IN  IF r # "none" THEN r ELSE "stop_loss"

\* a both-hit fallback that assumes the target
SLTPMonitor_check_OptimisticMutant(position, c, available_candles, current_timeframe) ==
    LET sl_hit == SLTPMonitor_sl_hit(position, c)
        tp_hit == SLTPMonitor_tp_hit(position, c)
    IN  IF sl_hit /\ tp_hit
        THEN IF available_candles # None
             THEN SLTPMonitor_resolve(position, c, Val(available_candles), current_timeframe)
             ELSE "take_profit"
        ELSE IF sl_hit THEN "stop_loss"
        ELSE IF tp_hit THEN "take_profit"
        ELSE "none"

\* available_candles is optional here: None, or a dict
SLTPMonitor_check(position, c, available_candles, current_timeframe) ==
    LET sl_hit == SLTPMonitor_sl_hit(position, c)
        tp_hit == SLTPMonitor_tp_hit(position, c)
    IN  IF sl_hit /\ tp_hit
        THEN IF available_candles # None
             THEN SLTPMonitor_resolve(position, c, Val(available_candles), current_timeframe)
             ELSE "stop_loss"
        ELSE IF sl_hit THEN "stop_loss"
        ELSE IF tp_hit THEN "take_profit"
        ELSE "none"

-----------------------------------------------------------------------------
(* persistence/database.py.  A Database is its connection, the rows of its  *)
(* four tables, and the calls made on it so far (log).                      *)

\* Database(): no connection yet; the file's tables are empty
NoDb == [conn |-> "none", portfolio |-> None, positions |-> <<>>, trades |-> <<>>,
         strategy_state |-> None, log |-> <<>>]

Database_initialize(d) == [d EXCEPT !.conn = "open", !.log = Append(@, "initialize")]

Database_close(d) == [d EXCEPT !.conn = "none", !.log = Append(@, "close")]

\* INSERT OR REPLACE by id: the row with this key is deleted, the new row
\* is inserted after the others
Database_upsert(rows, row) ==
    LET Other(r) == r.id # row.id
    IN  Append(SelectSeq(rows, Other), row)

\* SELECT * FROM positions, each row made a Position again
Database_get_open_positions(d) == d.positions

Database_save_position(d, position) ==
    [d EXCEPT !.positions = Database_upsert(@, position),
              !.log = Append(@, "save_position")]

Database_delete_position(d, position_id) ==
    LET Keep(p) == p.id # position_id
    IN  [d EXCEPT !.positions = SelectSeq(@, Keep),
                  !.log = Append(@, "delete_position")]

Database_save_trade(d, trade) ==
    [d EXCEPT !.trades = Database_upsert(@, trade), !.log = Append(@, "save_trade")]

Database_save_portfolio(d, pf) ==
    [d EXCEPT !.portfolio = Some([initial_balance |-> pf.initial_balance,
                                  balance |-> pf.balance]),
              !.log = Append(@, "save_portfolio")]

Database_save_strategy_state(d, state) ==
    [d EXCEPT !.strategy_state = Some(state), !.log = Append(@, "save_strategy_state")]

-----------------------------------------------------------------------------
(* Inputs: what the data provider, the strategy and the clients supply *)

PriceLevels == {9, 10, 11}

\* (low, high, close) of a 1m candle: flat, down, up, wide, and one
\* zero-priced candle (Candle does not validate what the exchange returns)
CandleShapes ==
    {<<10, 10, 10>>, <<9, 10, 9>>, <<10, 11, 11>>, <<9, 11, 10>>, <<0, 0, 0>>}

MkSignal(direction, size_percent, stop_loss, take_profit, position_id) ==
    [direction |-> direction, size_percent |-> size_percent, stop_loss |-> stop_loss,
     take_profit |-> take_profit, position_id |-> position_id]

\* Signal.open_long / Signal.open_short, and open signals with a field missing
OpenSignals ==
    {MkSignal("long", Some(pct), Some(9), Some(11), None) : pct \in {50, 100}}
    \cup {MkSignal("short", Some(pct), Some(11), Some(9), None) : pct \in {50, 100}}
    \cup {MkSignal("long", Some(50), Some(11), Some(9), None),
          MkSignal("long", None, Some(9), Some(11), None),
          MkSignal("long", Some(50), None, Some(11), None),
          MkSignal("short", Some(50), Some(11), None, None),
          MkSignal("long", Some(0), Some(9), Some(11), None)}

\* Signal.close(position_id): no id, an id that was never issued (0), or an
\* id issued so far
CloseSignals(issued) ==
    {MkSignal("close", None, None, None, pid) :
        pid \in {None} \cup {Some(i) : i \in 0..issued}}

Signals(issued) == OpenSignals \cup CloseSignals(issued)

NoSignal == MkSignal("none", None, None, None, None)

\* a surge: a candle that trades up to three times the calm price, and a
\* short whose stop the strategy placed there
SurgeShapes == {<<10, 30, 30>>}

SurgeSignals == {MkSignal("short", Some(100), Some(30), Some(9), None)}

MarketShapes == IF market = "surge" THEN CandleShapes \cup SurgeShapes ELSE CandleShapes

MarketSignals(issued) ==
    IF market = "surge" THEN Signals(issued) \cup SurgeSignals ELSE Signals(issued)

\* the timeframes the strategy declares
StrategyTimeframes == {"1m", "5m"}

NoCandle == MkCandle(UnsetTime, 0, 0, 0)

\* a MultiTimeframeData snapshot of the engine's aggregator, by the 1m candle
\* that is its latest and the number of 1m candles aggregated into it
MkSnapshot(latest, fed) == [latest |-> latest, fed |-> fed]

NoSnapshot == MkSnapshot(UnsetTime, 0)

-----------------------------------------------------------------------------
(* core/engine.py *)

\* Engine._calculate_warm_up_bars
RECURSIVE MaxMinutes(_)
MaxMinutes(tfs) ==
    IF tfs = {} THEN 0
    ELSE LET tf == CHOOSE t \in tfs : TRUE
         IN  Max(get_timeframe_minutes(tf), MaxMinutes(tfs \ {tf}))

\* a warm-up without the floor of 100 bars
calculate_warm_up_bars_NoFloorMutant == MaxMinutes(timeframes)

calculate_warm_up_bars == Max(MaxMinutes(timeframes), 100)

\* len(candles_1m) the provider may return
FetchedCounts ==
    {0, calculate_warm_up_bars}
        \cup {calculate_warm_up_bars + n : n \in 1..NumCandles}

\* timestamp (in minutes) of the i-th backtest candle
CandleTime(i) == calculate_warm_up_bars + i - 1

\* a finally clause that leaves the connection open
Engine_finally_SkipMutant(d) == d

\* finally: if self._db is not None: await self._db.close()
Engine_finally(d) == IF persist THEN Database_close(d) ELSE d

\* a restore that appends to the positions in memory
Engine_restore_state_AppendMutant(pf, d) ==
    [pf EXCEPT !.balance = IF d.portfolio # None THEN Val(d.portfolio).balance ELSE @,
               !.positions = @ \o Database_get_open_positions(d)]

\* Engine._restore_state: the portfolio it leaves
Engine_restore_state(pf, d) ==
    [pf EXCEPT !.balance = IF d.portfolio # None THEN Val(d.portfolio).balance ELSE @,
               !.positions = Database_get_open_positions(d)]

\* Engine._save_state; the strategy's state is the number of signals it gave
Engine_save_state(d, pf) ==
    IF persist
    THEN Database_save_strategy_state(Database_save_portfolio(d, pf), emitted)
    ELSE d

\* the persistence of an opened position (_execute_signal)
Engine_persist_open(d, position) ==
    IF persist THEN Database_save_position(d, position) ELSE d

\* the first database write for a closed position (_check_sl_tp,
\* _execute_signal, _close_all_positions): delete_position
Engine_persist_delete(d, trade) ==
    IF persist THEN Database_delete_position(d, trade.id) ELSE d

\* the write that follows it, after the await between the two
Engine_persist_trade(d, trade) == Database_save_trade(d, trade)

\* where a persisted run waits between delete_position and save_trade
SavePcs == {"sltp_save", "exec_save", "force_save"}

\* the database after Engine._execute_signal applied the executor's result
Engine_persist_result(d, res) ==
    IF res.kind = "position" THEN Engine_persist_open(d, res.position)
    ELSE IF res.kind = "trade" THEN Engine_persist_delete(d, res.trade)
    ELSE d

\* early results that report the portfolio's equity
EmptyResults_EquityMutant(pf) ==
    [trades |-> <<>>, equity_curve |-> <<>>, initial_balance |-> pf.initial_balance,
     final_equity |-> Portfolio_equity(pf)]

\* the BacktestResults of the two early returns
EmptyResults(pf) ==
    [trades |-> <<>>, equity_curve |-> <<>>, initial_balance |-> pf.initial_balance,
     final_equity |-> pf.initial_balance]

\* the BacktestResults of a completed run
BacktestResults(pf, curve) ==
    [trades |-> pf.trades, equity_curve |-> curve,
     initial_balance |-> pf.initial_balance, final_equity |-> Portfolio_equity(pf)]

\* a sample of the cash balance alone
EquityPoint_BalanceMutant(timestamp, equity) ==
    [timestamp |-> timestamp, equity |-> portfolio.balance]

EquityPoint(timestamp, equity) == [timestamp |-> timestamp, equity |-> equity]

\* an exit at the candle's close
Engine_get_exit_price_CloseMutant(position, reason) == candle.close

\* Engine._get_exit_price
Engine_get_exit_price(position, reason) ==
    IF reason = "stop_loss" THEN position.stop_loss ELSE position.take_profit

\* an _execute_signal that examines the new position on the candle that
\* opened it and closes it when the candle reaches its stop or target
Engine_apply_result_CheckNowMutant(pf, res) ==
    IF res.kind = "position"
    THEN LET r == SLTPMonitor_check(res.position, candle, None, "1m")
             after == Portfolio_open_position(pf, res.position)
         IN  IF r = "none" THEN [portfolio |-> after, error |-> "none"]
             ELSE [portfolio |-> Portfolio_close_position(after, res.position.id,
                                    BacktestExecutor_close_position(res.position,
                                        Engine_get_exit_price(res.position, r), r)),
                   error |-> "none"]
    ELSE IF res.kind = "trade"
         THEN IF Portfolio_close_position_found(pf, res.trade.id)
              THEN [portfolio |-> Portfolio_close_position(pf, res.trade.id, res.trade),
                    error |-> "none"]
              ELSE [portfolio |-> pf, error |-> "ValueError"]
         ELSE [portfolio |-> pf, error |-> "none"]

\* an _execute_signal that drops the position the executor returned
Engine_apply_result_NoOpenMutant(pf, res) ==
    IF res.kind = "trade"
    THEN IF Portfolio_close_position_found(pf, res.trade.id)
         THEN [portfolio |-> Portfolio_close_position(pf, res.trade.id, res.trade),
               error |-> "none"]
         ELSE [portfolio |-> pf, error |-> "ValueError"]
    ELSE [portfolio |-> pf, error |-> "none"]

\* Engine._execute_signal after the executor returned: the portfolio update
Engine_apply_result(pf, res) ==
    IF res.kind = "position" THEN [portfolio |-> Portfolio_open_position(pf, res.position),
                                   error |-> "none"]
    ELSE IF res.kind = "trade"
         THEN IF Portfolio_close_position_found(pf, res.trade.id)
              THEN [portfolio |-> Portfolio_close_position(pf, res.trade.id, res.trade),
                    error |-> "none"]
              ELSE [portfolio |-> pf, error |-> "ValueError"]
         ELSE [portfolio |-> pf, error |-> "none"]

OpenedAfter(res) == IF res.kind = "position" THEN Append(opened, res.position) ELSE opened

\* The inputs of a run (what the provider returns, what on_candle returns)
\* are drawn from their sets; a replay draws what the recorded run drew.
Draw(set) == IF mode = "replay" THEN {Head(script)} ELSE set

Logged(v) ==
    IF mode = "record" THEN Append(script, v)
    ELSE IF mode = "replay" THEN Tail(script) ELSE script

\* the signal a deterministic strategy returns in the replay: the recorded
\* one, naming the position that stands where the recorded one stood
Replayed(sig) ==
    IF sig.position_id # None /\ Val(sig.position_id) > 0
    THEN [sig EXCEPT !.position_id = Some(Val(sig.position_id) + id_offset)]
    ELSE sig

DrawSignal(set) == IF mode = "replay" THEN {Replayed(Head(script))} ELSE set

\* run_backtest up to the main loop: db.initialize, _restore_state, the
\* provider's candles, the two early returns, the warm-up and on_init
Fetch ==
    /\ pc = "init"
    /\ \E n \in Draw(FetchedCounts) :
          LET opened_db == IF persist THEN Database_initialize(db) ELSE db
              restored == IF persist THEN Engine_restore_state(portfolio, opened_db)
                          ELSE portfolio
          IN  /\ n_fetched' = n
              /\ script' = Logged(n)
              /\ portfolio' = restored
              /\ IF n = 0 \/ n <= calculate_warm_up_bars
                 THEN /\ results' = Some(EmptyResults(restored))
                      /\ db' = Engine_finally(opened_db)
                      /\ pc' = "done"
                      /\ n_backtest' = 0
                      /\ UNCHANGED <<agg_fed, init_calls, init_data>>
                 ELSE /\ agg_fed' = calculate_warm_up_bars
                      /\ init_calls' = init_calls + 1
                      /\ init_data' = MkSnapshot(calculate_warm_up_bars - 1,
                                                 calculate_warm_up_bars)
                      /\ db' = opened_db
                      /\ pc' = "loop"
                      /\ n_backtest' = n - calculate_warm_up_bars
                      /\ UNCHANGED results
    /\ UNCHANGED <<current_time, now, nextId, error, idx, candle, snapshot,
                   callVars, tick_trades, opened, last_open, monitorVars>>
    /\ UNCHANGED <<timeframes, candle_calls, equity_curve, persist, aggVars>>
    /\ UNCHANGED outVars
    /\ UNCHANGED liveVars
    /\ UNCHANGED <<mode, first_run, id_offset>>
    /\ UNCHANGED sideVars

\* await self._db.initialize() raises: run_backtest has not entered its try
InitializeRaises ==
    /\ pc = "init" /\ persist
    /\ \E conn \in {"none", "open"} :
          db' = [db EXCEPT !.conn = conn, !.log = Append(@, "initialize_failed")]
    /\ error' = "DatabaseError"
    /\ pc' = "raised"
    /\ UNCHANGED <<portfolio, current_time, now, nextId, n_backtest, idx, candle, snapshot,
                   callVars, tick_trades, opened, last_open, monitorVars>>
    /\ UNCHANGED <<runVars, persist, aggVars>>
    /\ UNCHANGED outVars
    /\ UNCHANGED liveVars
    /\ UNCHANGED twinVars
    /\ UNCHANGED sideVars

\* data_provider.get_historical_candles raises
ProviderRaises ==
    /\ pc = "init"
    /\ LET opened_db == IF persist THEN Database_initialize(db) ELSE db
       IN  /\ portfolio' = IF persist THEN Engine_restore_state(portfolio, opened_db)
                           ELSE portfolio
           /\ db' = Engine_finally(opened_db)
    /\ error' = "ProviderError"
    /\ pc' = "raised"
    /\ UNCHANGED <<current_time, now, nextId, n_backtest, idx, candle, snapshot,
                   callVars, tick_trades, opened, last_open, monitorVars>>
    /\ UNCHANGED <<runVars, persist, aggVars>>
    /\ UNCHANGED outVars
    /\ UNCHANGED liveVars
    /\ UNCHANGED twinVars
    /\ UNCHANGED sideVars

\* strategy.on_init raises, after the warm-up
OnInitRaises ==
    /\ pc = "init"
    /\ \E n \in FetchedCounts :
          /\ n > calculate_warm_up_bars
          /\ n_fetched' = n
    /\ LET opened_db == IF persist THEN Database_initialize(db) ELSE db
       IN  /\ portfolio' = IF persist THEN Engine_restore_state(portfolio, opened_db)
                           ELSE portfolio
           /\ db' = Engine_finally(opened_db)
    /\ agg_fed' = calculate_warm_up_bars
    /\ init_calls' = init_calls + 1
    /\ init_data' = MkSnapshot(calculate_warm_up_bars - 1, calculate_warm_up_bars)
    /\ error' = "StrategyError"
    /\ pc' = "raised"
    /\ UNCHANGED <<current_time, now, nextId, n_backtest, idx, candle, snapshot,
                   callVars, tick_trades, opened, last_open, monitorVars>>
    /\ UNCHANGED <<timeframes, candle_calls, equity_curve, results, persist, aggVars>>
    /\ UNCHANGED outVars
    /\ UNCHANGED liveVars
    /\ UNCHANGED twinVars
    /\ UNCHANGED sideVars

StartCandle_NoSlTpMutant ==
    /\ pc = "loop" /\ idx < n_backtest
    /\ \E s \in Draw(MarketShapes) :
          /\ script' = Logged(s)
          /\ candle' = MkCandle(CandleTime(idx + 1), s[1], s[2], s[3])
          /\ portfolio' = Portfolio_update_price(portfolio, s[3])
    /\ idx' = idx + 1
    /\ agg_fed' = agg_fed + 1
    /\ current_time' = CandleTime(idx + 1)
    /\ snapshot' = <<>>
    /\ pc' = "strategy"
    /\ UNCHANGED <<now, nextId, error, n_backtest, callVars, tick_trades, opened,
                   last_open, monitorVars>>
    /\ UNCHANGED <<timeframes, n_fetched, init_calls, init_data, candle_calls,
                   equity_curve, results, dbVars, aggVars>>
    /\ UNCHANGED outVars
    /\ UNCHANGED liveVars
    /\ UNCHANGED <<mode, first_run, id_offset>>
    /\ UNCHANGED sideVars

\* the head of the per-candle step: aggregator.update, current_time,
\* update_price, and the snapshot _check_sl_tp takes
StartCandle ==
    /\ pc = "loop" /\ idx < n_backtest
    /\ \E s \in Draw(MarketShapes) :
          /\ script' = Logged(s)
          /\ candle' = MkCandle(CandleTime(idx + 1), s[1], s[2], s[3])
          /\ portfolio' = Portfolio_update_price(portfolio, s[3])
    /\ idx' = idx + 1
    /\ agg_fed' = agg_fed + 1
    /\ current_time' = CandleTime(idx + 1)
    /\ snapshot' = portfolio.positions
    /\ pc' = "sltp"
    /\ UNCHANGED <<now, nextId, error, n_backtest, callVars, tick_trades, opened,
                   last_open, monitorVars>>
    /\ UNCHANGED <<timeframes, n_fetched, init_calls, init_data, candle_calls,
                   equity_curve, results, dbVars, aggVars>>
    /\ UNCHANGED outVars
    /\ UNCHANGED liveVars
    /\ UNCHANGED <<mode, first_run, id_offset>>
    /\ UNCHANGED sideVars

\* _check_sl_tp, one position: monitor.check and executor.close_position
SlTpCheck ==
    /\ pc = "sltp" /\ snapshot # <<>>
    /\ LET position == Head(snapshot)
           r == SLTPMonitor_check(position, candle, None, "1m")
       IN  IF r = "none"
           THEN /\ snapshot' = Tail(snapshot)
                /\ UNCHANGED <<pc, result, exec_price>>
           ELSE /\ exec_price' = Engine_get_exit_price(position, r)
                /\ result' = TradeResult(BacktestExecutor_close_position(
                                  position, Engine_get_exit_price(position, r), r))
                /\ pc' = "sltp_apply"
                /\ UNCHANGED snapshot
    /\ UNCHANGED <<portfolio, current_time, now, nextId, error, n_backtest, idx, candle,
                   pending, emitted, known_ids, cur_signal, tick_trades, opened, last_open, monitorVars>>
    /\ UNCHANGED <<runVars, dbVars, aggVars>>
    /\ UNCHANGED outVars
    /\ UNCHANGED liveVars
    /\ UNCHANGED twinVars
    /\ UNCHANGED sideVars

\* _check_sl_tp, the same position: portfolio.close_position, then the
\* database's delete_position and save_trade
SlTpApply ==
    /\ pc = "sltp_apply"
    /\ IF Portfolio_close_position_found(portfolio, Head(snapshot).id)
       THEN /\ portfolio' = Portfolio_close_position(portfolio, Head(snapshot).id,
                                                     result.trade)
            /\ db' = Engine_persist_delete(db, result.trade)
            /\ pc' = IF persist THEN "sltp_save" ELSE "sltp"
            /\ UNCHANGED error
       ELSE /\ error' = "ValueError"
            /\ db' = Engine_finally(db)
            /\ pc' = "raised"
            /\ UNCHANGED portfolio
    /\ snapshot' = Tail(snapshot)
    /\ result' = IF pc' \in SavePcs THEN result ELSE NoneResult
    /\ exec_price' = 0
    /\ UNCHANGED <<current_time, now, nextId, n_backtest, idx, candle, pending,
                   emitted, known_ids, cur_signal, tick_trades, opened, last_open, monitorVars>>
    /\ UNCHANGED <<runVars, persist, aggVars>>
    /\ UNCHANGED outVars
    /\ UNCHANGED liveVars
    /\ UNCHANGED twinVars
    /\ UNCHANGED sideVars

\* the SL/TP phase is over
SlTpDone ==
    /\ pc = "sltp" /\ snapshot = <<>>
    /\ pc' = "strategy"
    /\ UNCHANGED <<portfolio, current_time, now, nextId, error, n_backtest, idx, candle,
                   snapshot, callVars, tick_trades, opened, last_open, monitorVars>>
    /\ UNCHANGED <<runVars, dbVars, aggVars>>
    /\ UNCHANGED outVars
    /\ UNCHANGED liveVars
    /\ UNCHANGED twinVars
    /\ UNCHANGED sideVars

\* signals = self.strategy.on_candle(mtf_data, self.portfolio) or []
\* The strategy is any function of its arguments, so every list of signals
\* is a possible value (the run's lists hold at most MaxSignals signals
\* together).  The model fixes the list's length
\* here and draws each element when the loop reaches it; the ids a close
\* signal may name are those issued before this call.
Strategy ==
    /\ pc = "strategy"
    /\ pending' \in Draw(0..(MaxSignals - emitted))
    /\ script' = Logged(pending')
    /\ emitted' = emitted + pending'
    /\ known_ids' = nextId - 1
    /\ candle_calls' = candle_calls + 1
    /\ pc' = "exec"
    /\ UNCHANGED <<portfolio, current_time, now, nextId, error, n_backtest, idx, candle,
                   snapshot, cur_signal, exec_price, result, tick_trades, opened, last_open, monitorVars>>
    /\ UNCHANGED <<timeframes, n_fetched, agg_fed, init_calls, init_data, equity_curve,
                   results, dbVars, aggVars>>
    /\ UNCHANGED outVars
    /\ UNCHANGED liveVars
    /\ UNCHANGED <<mode, first_run, id_offset>>
    /\ UNCHANGED sideVars

\* strategy.on_candle raises
StrategyRaises ==
    /\ pc = "strategy"
    /\ candle_calls' = candle_calls + 1
    /\ error' = "StrategyError"
    /\ db' = Engine_finally(db)
    /\ pc' = "raised"
    /\ UNCHANGED <<portfolio, current_time, now, nextId, n_backtest, idx, candle, snapshot,
                   callVars, tick_trades, opened, last_open, monitorVars>>
    /\ UNCHANGED <<timeframes, n_fetched, agg_fed, init_calls, init_data, equity_curve,
                   results, persist, aggVars>>
    /\ UNCHANGED outVars
    /\ UNCHANGED liveVars
    /\ UNCHANGED twinVars
    /\ UNCHANGED sideVars

\* _execute_signal: await self.executor.execute(signal, current_price, portfolio)
Execute ==
    /\ pc = "exec" /\ pending > 0
    /\ \E sig \in DrawSignal(MarketSignals(known_ids)) :
          LET r == BacktestExecutor_execute(sig, candle.close, portfolio)
          IN  /\ cur_signal' = sig
              /\ script' = Logged(sig)
              /\ result' = r.ret
              /\ portfolio' = r.portfolio
              /\ nextId' = IF r.ret.kind = "position" THEN nextId + 1 ELSE nextId
    /\ exec_price' = candle.close
    /\ pending' = pending - 1
    /\ pc' = "exec_apply"
    /\ UNCHANGED <<current_time, now, error, n_backtest, idx, candle, snapshot, emitted,
                   known_ids, tick_trades, opened, last_open, monitorVars>>
    /\ UNCHANGED <<runVars, dbVars, aggVars>>
    /\ UNCHANGED outVars
    /\ UNCHANGED liveVars
    /\ UNCHANGED <<mode, first_run, id_offset>>
    /\ UNCHANGED sideVars

\* the executor raises: execute in the signal loop, close_position in
\* _close_all_positions
ExecutorRaises ==
    /\ \/ pc = "exec" /\ pending > 0
       \/ pc = "force" /\ snapshot # <<>>
    /\ error' = "ExecutorError"
    /\ db' = Engine_finally(db)
    /\ pc' = "raised"
    /\ UNCHANGED <<portfolio, current_time, now, nextId, n_backtest, idx, candle, snapshot,
                   callVars, tick_trades, opened, last_open, monitorVars>>
    /\ UNCHANGED <<runVars, persist, aggVars>>
    /\ UNCHANGED outVars
    /\ UNCHANGED liveVars
    /\ UNCHANGED twinVars
    /\ UNCHANGED sideVars

\* _execute_signal: the portfolio update that follows, then the database's
\* save_position, or delete_position and save_trade
ExecApply ==
    /\ pc = "exec_apply"
    /\ LET a == Engine_apply_result(portfolio, result)
       IN  /\ portfolio' = a.portfolio
           /\ error' = a.error
           /\ pc' = IF a.error # "none" THEN "raised"
                    ELSE IF persist /\ result.kind = "trade" THEN "exec_save" ELSE "exec"
           /\ db' = IF a.error = "none" THEN Engine_persist_result(db, result)
                    ELSE Engine_finally(db)
    /\ opened' = OpenedAfter(result)
    /\ cur_signal' = NoSignal
    /\ exec_price' = 0
    /\ result' = IF pc' \in SavePcs THEN result ELSE NoneResult
    /\ UNCHANGED <<current_time, now, nextId, n_backtest, idx, candle, snapshot,
                   pending, emitted, known_ids, tick_trades, last_open, monitorVars>>
    /\ UNCHANGED <<runVars, persist, aggVars>>
    /\ UNCHANGED outVars
    /\ UNCHANGED liveVars
    /\ UNCHANGED twinVars
    /\ UNCHANGED sideVars

\* _check_sl_tp, _execute_signal and _close_all_positions with a database:
\* the await of delete_position is over, save_trade
SaveTrade ==
    /\ pc \in SavePcs
    /\ db' = Engine_persist_trade(db, result.trade)
    /\ pc' = IF pc = "sltp_save" THEN "sltp" ELSE IF pc = "exec_save" THEN "exec" ELSE "force"
    /\ result' = NoneResult
    /\ UNCHANGED <<portfolio, current_time, now, nextId, error, n_backtest, idx, candle,
                   snapshot, pending, emitted, known_ids, cur_signal, exec_price,
                   tick_trades, opened, last_open, monitorVars>>
    /\ UNCHANGED <<runVars, persist, aggVars>>
    /\ UNCHANGED outVars
    /\ UNCHANGED liveVars
    /\ UNCHANGED twinVars
    /\ UNCHANGED sideVars

\* the tail of the per-candle step: the equity sample
EndCandle ==
    /\ pc = "exec" /\ pending = 0
    /\ equity_curve' = Append(equity_curve,
                              EquityPoint(candle.timestamp, Portfolio_equity(portfolio)))
    /\ pc' = "loop"
    /\ known_ids' = 0
    /\ UNCHANGED <<portfolio, current_time, now, nextId, error, n_backtest, idx, candle,
                   snapshot, pending, emitted, cur_signal, exec_price, result, tick_trades,
                   opened, last_open, monitorVars>>
    /\ UNCHANGED <<timeframes, n_fetched, agg_fed, init_calls, init_data, candle_calls,
                   results, dbVars, aggVars>>
    /\ UNCHANGED outVars
    /\ UNCHANGED liveVars
    /\ UNCHANGED twinVars
    /\ UNCHANGED sideVars

\* _close_all_positions(last_candle.close, last_candle.timestamp): its head
ForceCloseStart ==
    /\ pc = "loop" /\ idx = n_backtest
    /\ current_time' = candle.timestamp
    /\ snapshot' = portfolio.positions
    /\ last_open' = portfolio.positions
    /\ pc' = "force"
    /\ UNCHANGED <<portfolio, now, nextId, error, n_backtest, idx, candle, callVars,
                   tick_trades, opened, monitorVars>>
    /\ UNCHANGED <<runVars, dbVars, aggVars>>
    /\ UNCHANGED outVars
    /\ UNCHANGED liveVars
    /\ UNCHANGED twinVars
    /\ UNCHANGED sideVars

\* _close_all_positions, one position: executor.close_position
ForceClose ==
    /\ pc = "force" /\ snapshot # <<>>
    /\ result' = TradeResult(BacktestExecutor_close_position(Head(snapshot), candle.close,
                                                             "signal"))
    /\ exec_price' = candle.close
    /\ pc' = "force_apply"
    /\ UNCHANGED <<portfolio, current_time, now, nextId, error, n_backtest, idx, candle,
                   snapshot, pending, emitted, known_ids, cur_signal, tick_trades, opened, last_open, monitorVars>>
    /\ UNCHANGED <<runVars, dbVars, aggVars>>
    /\ UNCHANGED outVars
    /\ UNCHANGED liveVars
    /\ UNCHANGED twinVars
    /\ UNCHANGED sideVars

\* _close_all_positions, the same position: portfolio.close_position, then
\* the database's delete_position and save_trade
ForceApply ==
    /\ pc = "force_apply"
    /\ IF Portfolio_close_position_found(portfolio, Head(snapshot).id)
       THEN /\ portfolio' = Portfolio_close_position(portfolio, Head(snapshot).id,
                                                     result.trade)
            /\ db' = Engine_persist_delete(db, result.trade)
            /\ pc' = IF persist THEN "force_save" ELSE "force"
            /\ UNCHANGED error
       ELSE /\ error' = "ValueError"
            /\ db' = Engine_finally(db)
            /\ pc' = "raised"
            /\ UNCHANGED portfolio
    /\ snapshot' = Tail(snapshot)
    /\ result' = IF pc' \in SavePcs THEN result ELSE NoneResult
    /\ exec_price' = 0
    /\ UNCHANGED <<current_time, now, nextId, n_backtest, idx, candle, pending,
                   emitted, known_ids, cur_signal, tick_trades, opened, last_open, monitorVars>>
    /\ UNCHANGED <<runVars, persist, aggVars>>
    /\ UNCHANGED outVars
    /\ UNCHANGED liveVars
    /\ UNCHANGED twinVars
    /\ UNCHANGED sideVars

\* a return that does not wait for the force-close loop
Finish_EarlyMutant ==
    /\ pc = "force"
    /\ results' = Some(BacktestResults(portfolio, equity_curve))
    /\ db' = Engine_finally(Engine_save_state(db, portfolio))
    /\ pc' = "done"
    /\ UNCHANGED <<portfolio, current_time, now, nextId, error, n_backtest, idx, candle,
                   snapshot, callVars, tick_trades, opened, last_open, monitorVars>>
    /\ UNCHANGED <<timeframes, n_fetched, agg_fed, init_calls, init_data, candle_calls,
                   equity_curve, persist, aggVars>>
    /\ UNCHANGED outVars
    /\ UNCHANGED liveVars
    /\ UNCHANGED twinVars
    /\ UNCHANGED sideVars

\* the end of run_backtest: _save_state, the results, and the finally clause
Finish ==
    /\ pc = "force" /\ snapshot = <<>>
    /\ results' = Some(BacktestResults(portfolio, equity_curve))
    /\ db' = Engine_finally(Engine_save_state(db, portfolio))
    /\ pc' = "done"
    /\ UNCHANGED <<portfolio, current_time, now, nextId, error, n_backtest, idx, candle,
                   snapshot, callVars, tick_trades, opened, last_open, monitorVars>>
    /\ UNCHANGED <<timeframes, n_fetched, agg_fed, init_calls, init_data, candle_calls,
                   equity_curve, persist, aggVars>>
    /\ UNCHANGED outVars
    /\ UNCHANGED liveVars
    /\ UNCHANGED twinVars
    /\ UNCHANGED sideVars

\* Engine.run has not been called: no alerter, nothing returned or raised
NoOutcome == [kind |-> "none", value |-> "none"]

BacktestExecutor_init(initial_balance) ==
    [kind |-> "backtest", initial_balance |-> initial_balance]

PaperExecutor_init(initial_balance) ==
    [kind |-> "paper", initial_balance |-> initial_balance]

RunIdle ==
    /\ executor = BacktestExecutor_init(InitialBalance)
    /\ alerter = FALSE
    /\ error_alerts = <<>>
    /\ outcome = NoOutcome

\* no metric has been asked for
MetricsIdle ==
    /\ trade_list = <<>>
    /\ equity_points = <<>>
    /\ report = None

\* no historical fetch is in progress
FetchIdle ==
    /\ since = 0
    /\ end_ms = 0
    /\ all_candles = <<>>
    /\ retries = 0
    /\ slept = 0

\* prices stay within PriceLevels
CalmMarket == market = "calm"

SideIdle == CalmMarket /\ MetricsIdle /\ FetchIdle

\* a single run: nothing is recorded or replayed
TwinOff ==
    /\ mode = "off"
    /\ script = <<>>
    /\ first_run = None
    /\ id_offset = 0

\* the timeframes a live subscription may name
LiveTimeframes == {"1m", "4h"}

\* LiveDataProvider.__init__: not running, no connection, no accumulator
LiveIdle ==
    /\ running = FALSE
    /\ consecutive_failures = 0
    /\ cvd_accumulator = [tf \in LiveTimeframes |-> None]
    /\ ws = FALSE
    /\ backoff = 0
    /\ closing = FALSE
    /\ sleeps = <<>>
    /\ delivered = <<>>
    /\ cvd_sum = [tf \in LiveTimeframes |-> 0]
    /\ subscribe_calls = 0
    /\ n_messages = 0
    /\ callback_errors = 0
    /\ in_flight = 0

InitWith(start, pf) ==
    /\ portfolio = pf
    /\ current_time = UnsetTime
    /\ now = 0
    /\ nextId = 1
    /\ pc = start
    /\ error = "none"
    /\ n_backtest = 0
    /\ idx = 0
    /\ candle = NoCandle
    /\ snapshot = <<>>
    /\ pending = 0
    /\ emitted = 0
    /\ known_ids = 0
    /\ cur_signal = NoSignal
    /\ exec_price = 0
    /\ result = NoneResult
    /\ tick_trades = <<>>
    /\ opened = <<>>
    /\ last_open = <<>>
    /\ n_fetched = 0
    /\ agg_fed = 0
    /\ init_calls = 0
    /\ init_data = NoSnapshot
    /\ candle_calls = 0
    /\ equity_curve = <<>>
    /\ results = None

InitAt(start) == InitWith(start, NewPortfolio(InitialBalance))

\* Engine(strategy, provider, executor): persist defaults to False
EngineOff ==
    /\ timeframes = StrategyTimeframes
    /\ persist = FALSE
    /\ db = NoDb

\* no TimeframeAggregator of a client's own
AggIdle ==
    /\ agg = None
    /\ a_next = 0
    /\ a_pattern = 0
    /\ a_fed = <<>>
    /\ a_mtf = None
    /\ a_error = "none"
    /\ q_op = "none"
    /\ q_label = "1m"
    /\ q_error = "none"
    /\ q_value = None

MonitorIdle ==
    /\ m_position = [id |-> 0, side |-> "long", stop_loss |-> 9, take_profit |-> 11]
    /\ m_candle = NoCandle
    /\ m_available = None
    /\ m_tf = "1m"
    /\ m_op = "idle"
    /\ m_result = "none"

\* Engine(strategy, provider, BacktestExecutor()) before run()
Init == InitAt("init") /\ TwinOff /\ SideIdle /\ LiveIdle /\ RunIdle /\ MonitorIdle /\ EngineOff /\ AggIdle

Next ==
    \/ Fetch
    \/ StartCandle
    \/ SlTpCheck
    \/ SlTpApply
    \/ SlTpDone
    \/ Strategy
    \/ Execute
    \/ ExecApply
    \/ EndCandle
    \/ ForceCloseStart
    \/ ForceClose
    \/ ForceApply
    \/ Finish

Spec == Init /\ [][Next]_vars

\* the timeframes a strategy may declare
StrategyTimeframeSets == {StrategyTimeframes, {"1m", "4h"}}

\* a position row of the store
StorePosition(id, side, size_usd) ==
    [id |-> id, side |-> side, entry_price |-> 10, entry_time |-> 0,
     size |-> size_usd \div 10, size_usd |-> size_usd,
     stop_loss |-> IF side = "long" THEN 9 ELSE 11,
     take_profit |-> IF side = "long" THEN 11 ELSE 9]

\* the balances a previous run may have saved
StoredBalances == {9000}

\* the database file before the run: new, as a completed run left it, or as
\* a run left it that stopped between two per-candle steps with a position
\* open (its _save_state was never reached, so there is no portfolio row)
StoredFiles ==
    {NoDb} \cup
    {[NoDb EXCEPT !.portfolio = Some([initial_balance |-> InitialBalance,
                                      balance |-> b]),
                  !.strategy_state = Some(0)] : b \in StoredBalances} \cup
    {[NoDb EXCEPT !.positions = <<StorePosition(7, "long", 5000)>>]}

\* the backtest of Spec in a market that surges
InitSurge ==
    /\ InitAt("init") /\ TwinOff /\ LiveIdle /\ RunIdle /\ MonitorIdle /\ EngineOff /\ AggIdle
    /\ market = "surge" /\ MetricsIdle /\ FetchIdle

SpecSurge == InitSurge /\ [][Next]_vars

\* Engine(strategy, provider, BacktestExecutor(), persist=...) before run()
InitRun ==
    /\ InitAt("init") /\ TwinOff /\ SideIdle /\ LiveIdle /\ RunIdle /\ MonitorIdle /\ AggIdle
    /\ timeframes \in StrategyTimeframeSets
    /\ persist \in BOOLEAN
    /\ db \in (IF persist THEN StoredFiles ELSE {NoDb})

\* the run with collaborators that may raise
NextRun ==
    \/ Next
    \/ InitializeRaises
    \/ ProviderRaises
    \/ OnInitRaises
    \/ StrategyRaises
    \/ ExecutorRaises
    \/ SaveTrade

SpecRun == InitRun /\ [][NextRun]_vars

-----------------------------------------------------------------------------
(* Engine.__init__ and Engine.run: the portfolio the constructor makes, the *)
(* dispatch on the executor's class, and the except clause around the run   *)

\* the balance Engine.__init__ uses for an executor that is no BacktestExecutor
EngineDefaultBalance == 10000

ExecutorBalances == {10000, 50000}

Executors ==
    {BacktestExecutor_init(b) : b \in ExecutorBalances}
        \cup {PaperExecutor_init(b) : b \in ExecutorBalances}

Engine_init_balance(exec) ==
    IF exec.kind = "backtest" THEN exec.initial_balance ELSE EngineDefaultBalance

\* isinstance(self.executor, BacktestExecutor): run_backtest, otherwise the raise
Engine_run_dispatch(exec) ==
    IF exec.kind = "backtest"
    THEN [pc |-> "init", error |-> "none"]
    ELSE [pc |-> "raised", error |-> "NotImplementedError"]

\* except Exception: on_error(type and message) when there is an alerter
Engine_run_alert_TwiceMutant(has_alerter, alerts, exc) ==
    IF has_alerter THEN alerts \o <<exc, exc>> ELSE alerts

Engine_run_alert(has_alerter, alerts, exc) ==
    IF has_alerter THEN Append(alerts, exc) ELSE alerts

\* the bare raise of the except clause: the caller gets the same exception
Engine_run_raise_SwallowMutant(exc) == [kind |-> "returned", value |-> "None"]

Engine_run_raise(exc) == [kind |-> "raised", value |-> exc]

Run ==
    /\ pc = "run"
    /\ pc' = Engine_run_dispatch(executor).pc
    /\ error' = Engine_run_dispatch(executor).error
    /\ UNCHANGED <<portfolio, current_time, now, nextId, n_backtest, idx, candle, snapshot,
                   callVars, tick_trades, opened, last_open, monitorVars, runVars, dbVars,
                   aggVars, outVars>>
    /\ UNCHANGED liveVars
    /\ UNCHANGED twinVars
    /\ UNCHANGED sideVars

\* return await self.run_backtest()
RunReturn ==
    /\ pc = "done"
    /\ outcome' = [kind |-> "returned", value |-> results]
    /\ pc' = "returned"
    /\ UNCHANGED <<portfolio, current_time, now, nextId, error, n_backtest, idx, candle,
                   snapshot, callVars, tick_trades, opened, last_open, monitorVars, runVars,
                   dbVars, aggVars, executor, alerter, error_alerts>>
    /\ UNCHANGED liveVars
    /\ UNCHANGED twinVars
    /\ UNCHANGED sideVars

RunExcept ==
    /\ pc = "raised"
    /\ error_alerts' = Engine_run_alert(alerter, error_alerts, error)
    /\ outcome' = Engine_run_raise(error)
    /\ pc' = "propagated"
    /\ UNCHANGED <<portfolio, current_time, now, nextId, error, n_backtest, idx, candle,
                   snapshot, callVars, tick_trades, opened, last_open, monitorVars, runVars,
                   dbVars, aggVars, executor, alerter>>
    /\ UNCHANGED liveVars
    /\ UNCHANGED twinVars
    /\ UNCHANGED sideVars

InitEngine ==
    /\ executor \in Executors
    /\ alerter \in BOOLEAN
    /\ error_alerts = <<>>
    /\ outcome = NoOutcome
    /\ InitWith("run", NewPortfolio(Engine_init_balance(executor)))
    /\ MonitorIdle /\ AggIdle /\ LiveIdle /\ TwinOff /\ SideIdle
    /\ timeframes = StrategyTimeframes
    /\ persist = FALSE
    /\ db = NoDb

NextEngine ==
    \/ Run
    \/ Next
    \/ ProviderRaises
    \/ OnInitRaises
    \/ StrategyRaises
    \/ ExecutorRaises
    \/ RunReturn
    \/ RunExcept

SpecEngine == InitEngine /\ [][NextEngine]_vars

-----------------------------------------------------------------------------
(* LiveDataProvider: subscribe with its reconnect loop, _listen, and        *)
(* unsubscribe called from another task. The subscribe call stands at an    *)
(* await: "l_connecting" (websockets.connect), "l_listen" (the next message *)
(* of the connection), "l_callback" (the callback) or "l_sleep" (the        *)
(* backoff); "l_idle" when no subscribe call is in flight.                  *)

INITIAL_BACKOFF_S == 1
MAX_BACKOFF_S == 60
BACKOFF_MULTIPLIER == 2
MAX_CONSECUTIVE_FAILURES == 10

\* how many messages the connections deliver in a run
MaxMessages == 2

\* how many times subscribe is called in a run
MaxSubscribes == 2

SubscribeTimeframes == {{"1m"}, {"1m", "4h"}}

\* the messages of the stream: text that is no JSON, an event that is no
\* kline, and klines of a timeframe, still open (x false) or closed
KlineMessages ==
    [e : {"kline"}, i : LiveTimeframes, o : {100}, c : {99, 100, 101}, v : {3},
     x : BOOLEAN]

Messages == {[e |-> "text"], [e |-> "other"]} \cup KlineMessages

\* _parse_kline_message: None for what is no kline, otherwise the timeframe,
\* the candle with cvd = volume * sign(close - open), and is_closed
parse_kline_message(data) ==
    IF data.e # "kline"
    THEN None
    ELSE LET diff == data.c - data.o
             sign == IF diff > 0 THEN 1 ELSE IF diff < 0 THEN 0 - 1 ELSE 0
         IN  Some([tf |-> data.i,
                   candle |-> [open |-> data.o, close |-> data.c, volume |-> data.v,
                               cvd |-> data.v * sign],
                   is_closed |-> data.x])

\* self._cvd_accumulator.get(tf, 0.0)
Accumulator_get(acc, tf) == IF acc[tf] = None THEN 0 ELSE Val(acc[tf])

\* for tf in timeframes: self._cvd_accumulator[tf] = 0.0
Subscribe_init_accumulator(acc, tfs) ==
    [tf \in LiveTimeframes |-> IF tf \in tfs THEN Some(0) ELSE acc[tf]]

\* self._cvd_accumulator.clear()
Accumulator_clear(acc) == [tf \in LiveTimeframes |-> None]

\* backoff = min(backoff * BACKOFF_MULTIPLIER, MAX_BACKOFF_S)
NextBackoff_NoCapMutant(b) == b * BACKOFF_MULTIPLIER

NextBackoff(b) == Min(b * BACKOFF_MULTIPLIER, MAX_BACKOFF_S)

\* where _listen stands after it has called the callback: at the await
Listen_dispatch_NoAwaitMutant == "l_" \o "listen"

Listen_dispatch == "l_callback"

engineSide == <<portfolio, current_time, now, nextId, n_backtest, idx, candle, snapshot,
                callVars, tick_trades, opened, last_open, monitorVars, runVars, dbVars,
                aggVars, executor, alerter, outcome>>

\* subscribe up to its first await
Subscribe ==
    /\ pc = "l_idle" /\ subscribe_calls < MaxSubscribes
    /\ \E tfs \in SubscribeTimeframes :
          cvd_accumulator' = Subscribe_init_accumulator(cvd_accumulator, tfs)
    /\ running' = TRUE
    /\ consecutive_failures' = 0
    /\ backoff' = INITIAL_BACKOFF_S
    /\ sleeps' = <<>>
    /\ subscribe_calls' = subscribe_calls + 1
    /\ error' = "none"
    /\ pc' = "l_connecting"
    /\ UNCHANGED <<engineSide, error_alerts, ws, closing, delivered, cvd_sum, n_messages,
                   callback_errors, in_flight>>
    /\ UNCHANGED twinVars
    /\ UNCHANGED sideVars

\* websockets.connect succeeded: the streak and the delay are reset
ConnectOk ==
    /\ pc = "l_connecting"
    /\ ws' = TRUE
    /\ consecutive_failures' = 0
    /\ backoff' = INITIAL_BACKOFF_S
    /\ sleeps' = <<>>
    /\ pc' = "l_listen"
    /\ UNCHANGED <<engineSide, error, error_alerts, running, cvd_accumulator, closing,
                   delivered, cvd_sum, subscribe_calls, n_messages, callback_errors,
                   in_flight>>
    /\ UNCHANGED twinVars
    /\ UNCHANGED sideVars

\* the rest of the loop body after the try statement, and the statement
\* after the loop: stop at MAX_CONSECUTIVE_FAILURES, otherwise sleep
AfterTry(failures) ==
    IF failures >= MAX_CONSECUTIVE_FAILURES
    THEN /\ running' = FALSE
         /\ ws' = FALSE
         /\ pc' = "l_idle"
         /\ UNCHANGED sleeps
    ELSE /\ sleeps' = Append(sleeps, backoff)
         /\ pc' = "l_sleep"
         /\ UNCHANGED <<running, ws>>

\* except ConnectionClosed / (OSError, WebSocketException)
ExceptConnection ==
    IF ~running
    THEN /\ ws' = FALSE
         /\ pc' = "l_idle"
         /\ UNCHANGED <<running, consecutive_failures, sleeps>>
    ELSE /\ consecutive_failures' = consecutive_failures + 1
         /\ AfterTry(consecutive_failures + 1)

\* websockets.connect raised
ConnectFails ==
    /\ pc = "l_connecting"
    /\ ExceptConnection
    /\ UNCHANGED <<engineSide, error, error_alerts, cvd_accumulator, backoff, closing,
                   delivered, cvd_sum, subscribe_calls, n_messages, callback_errors,
                   in_flight>>
    /\ UNCHANGED twinVars
    /\ UNCHANGED sideVars

\* the connection dropped while _listen was waiting for a message
ConnectionClosed ==
    /\ pc = "l_listen"
    /\ ExceptConnection
    /\ UNCHANGED <<engineSide, error, error_alerts, cvd_accumulator, backoff, closing,
                   delivered, cvd_sum, subscribe_calls, n_messages, callback_errors,
                   in_flight>>
    /\ UNCHANGED twinVars
    /\ UNCHANGED sideVars

\* the stream ended without an error: _listen returns
StreamEnds ==
    /\ pc = "l_listen"
    /\ IF ~running
       THEN /\ ws' = FALSE
            /\ pc' = "l_idle"
            /\ UNCHANGED <<running, sleeps>>
       ELSE AfterTry(consecutive_failures)
    /\ UNCHANGED <<engineSide, error, error_alerts, consecutive_failures, cvd_accumulator,
                   backoff, closing, delivered, cvd_sum, subscribe_calls, n_messages,
                   callback_errors, in_flight>>
    /\ UNCHANGED twinVars
    /\ UNCHANGED sideVars

\* asyncio.sleep(backoff) is over: the next delay, and the loop test
SleepDone ==
    /\ pc = "l_sleep"
    /\ backoff' = NextBackoff(backoff)
    /\ IF running
       THEN pc' = "l_connecting" /\ UNCHANGED ws
       ELSE pc' = "l_idle" /\ ws' = FALSE
    /\ UNCHANGED <<engineSide, error, error_alerts, running, consecutive_failures,
                   cvd_accumulator, closing, sleeps, delivered, cvd_sum, subscribe_calls,
                   n_messages, callback_errors, in_flight>>
    /\ UNCHANGED twinVars
    /\ UNCHANGED sideVars

\* one message of the connection, through the body of _listen's loop up to
\* its next await
Message ==
    /\ pc = "l_listen" /\ n_messages < MaxMessages
    /\ n_messages' = n_messages + 1
    /\ \E raw \in Messages :
          LET parsed == IF raw.e = "text" THEN None ELSE parse_kline_message(raw)
          IN  IF ~running
              THEN /\ ws' = FALSE
                   /\ pc' = "l_idle"
                   /\ UNCHANGED <<cvd_accumulator, delivered, cvd_sum, in_flight>>
              ELSE IF parsed = None \/ ~Val(parsed).is_closed
              THEN UNCHANGED <<pc, ws, cvd_accumulator, delivered, cvd_sum, in_flight>>
              ELSE LET tf == Val(parsed).tf
                       c == Val(parsed).candle
                       cumulative_cvd == Accumulator_get(cvd_accumulator, tf) + c.cvd
                   IN  /\ cvd_accumulator' = [cvd_accumulator EXCEPT ![tf] = Some(cumulative_cvd)]
                       /\ cvd_sum' = [cvd_sum EXCEPT ![tf] = @ + c.volume *
                                (IF c.close > c.open THEN 1
                                 ELSE IF c.close < c.open THEN 0 - 1 ELSE 0)]
                       /\ delivered' = Append(delivered,
                                [tf |-> tf, candle |-> [c EXCEPT !.cvd = cumulative_cvd],
                                 busy |-> in_flight])
                       /\ in_flight' = in_flight + 1
                       /\ pc' = Listen_dispatch
                       /\ UNCHANGED ws
    /\ UNCHANGED <<engineSide, error, error_alerts, running, consecutive_failures, backoff,
                   closing, sleeps, subscribe_calls, callback_errors>>
    /\ UNCHANGED twinVars
    /\ UNCHANGED sideVars

\* the callback returned
CallbackReturns ==
    /\ in_flight > 0
    /\ in_flight' = in_flight - 1
    /\ pc' = IF pc = "l_callback" THEN "l_listen" ELSE pc
    /\ UNCHANGED <<engineSide, error, error_alerts, running, consecutive_failures,
                   cvd_accumulator, ws, backoff, closing, sleeps, delivered, cvd_sum,
                   subscribe_calls, n_messages, callback_errors>>
    /\ UNCHANGED twinVars
    /\ UNCHANGED sideVars

\* the callback raised: except Exception logs it and the loop goes on
CallbackRaises ==
    /\ in_flight > 0
    /\ in_flight' = in_flight - 1
    /\ callback_errors' = callback_errors + 1
    /\ pc' = IF pc = "l_callback" THEN "l_listen" ELSE pc
    /\ UNCHANGED <<engineSide, error, error_alerts, running, consecutive_failures,
                   cvd_accumulator, ws, backoff, closing, sleeps, delivered, cvd_sum,
                   subscribe_calls, n_messages>>
    /\ UNCHANGED twinVars
    /\ UNCHANGED sideVars

\* the task running subscribe is cancelled at one of its awaits: inside the
\* try statement the loop is left and _ws is reset, in the sleep the
\* CancelledError leaves subscribe at once
Cancelled ==
    /\ pc \in {"l_connecting", "l_listen", "l_callback", "l_sleep"}
    /\ ws' = IF pc = "l_sleep" THEN ws ELSE FALSE
    /\ error' = IF pc = "l_sleep" THEN "CancelledError" ELSE "none"
    /\ in_flight' = IF pc = "l_callback" THEN in_flight - 1 ELSE in_flight
    /\ pc' = "l_idle"
    /\ UNCHANGED <<engineSide, error_alerts, running, consecutive_failures,
                   cvd_accumulator, backoff, closing, sleeps, delivered, cvd_sum,
                   subscribe_calls, n_messages, callback_errors>>
    /\ UNCHANGED twinVars
    /\ UNCHANGED sideVars

\* unsubscribe up to its await of ws.close(), or to its end when there is
\* no connection (no listen task is ever stored)
Unsubscribe ==
    /\ ~closing
    /\ running' = FALSE
    /\ IF ws
       THEN /\ closing' = TRUE
            /\ UNCHANGED <<cvd_accumulator, cvd_sum>>
       ELSE /\ cvd_accumulator' = Accumulator_clear(cvd_accumulator)
            /\ cvd_sum' = [tf \in LiveTimeframes |-> 0]
            /\ UNCHANGED closing
    /\ UNCHANGED <<engineSide, pc, error, error_alerts, consecutive_failures, ws, backoff,
                   sleeps, delivered, subscribe_calls, n_messages, callback_errors,
                   in_flight>>
    /\ UNCHANGED twinVars
    /\ UNCHANGED sideVars

\* unsubscribe after ws.close(): _ws = None and the accumulator is cleared
UnsubscribeEnd ==
    /\ closing
    /\ closing' = FALSE
    /\ ws' = FALSE
    /\ cvd_accumulator' = Accumulator_clear(cvd_accumulator)
    /\ cvd_sum' = [tf \in LiveTimeframes |-> 0]
    /\ UNCHANGED <<engineSide, pc, error, error_alerts, running, consecutive_failures,
                   backoff, sleeps, delivered, subscribe_calls, n_messages, callback_errors,
                   in_flight>>
    /\ UNCHANGED twinVars
    /\ UNCHANGED sideVars

InitLive ==
    /\ InitWith("l_idle", NewPortfolio(InitialBalance))
    /\ MonitorIdle /\ EngineOff /\ AggIdle /\ LiveIdle /\ TwinOff /\ SideIdle
    /\ executor = PaperExecutor_init(InitialBalance)
    /\ alerter = TRUE
    /\ error_alerts = <<>>
    /\ outcome = NoOutcome

NextLive ==
    \/ Subscribe
    \/ ConnectOk
    \/ ConnectFails
    \/ ConnectionClosed
    \/ StreamEnds
    \/ SleepDone
    \/ Message
    \/ CallbackReturns
    \/ CallbackRaises
    \/ Cancelled
    \/ Unsubscribe
    \/ UnsubscribeEnd

SpecLive == InitLive /\ [][NextLive]_vars

\* both callers of the per-candle step: the backtest loop and the listener
InitSteps == Init \/ InitLive

NextSteps == Next \/ NextLive

SpecSteps == InitSteps /\ [][NextSteps]_vars

-----------------------------------------------------------------------------
(* Two backtests over the same candles with the same deterministic         *)
(* strategy: the first run records what the provider and the strategy      *)
(* returned, the second, with a new engine, portfolio and executor, is     *)
(* given the same. Position.generate_id is not reset: the ids of the       *)
(* second run are fresh.                                                   *)

\* what the first run leaves to compare with
RunRecord(pf, curve, res) == [trades |-> pf.trades, equity_curve |-> curve, results |-> res]

Rerun ==
    /\ pc = "done" /\ mode = "record"
    /\ first_run' = Some(RunRecord(portfolio, equity_curve, results))
    /\ mode' = "replay"
    /\ id_offset' = nextId - 1
    /\ portfolio' = NewPortfolio(InitialBalance)
    /\ current_time' = UnsetTime
    /\ pc' = "init"
    /\ n_backtest' = 0
    /\ idx' = 0
    /\ candle' = NoCandle
    /\ snapshot' = <<>>
    /\ pending' = 0
    /\ emitted' = 0
    /\ known_ids' = 0
    /\ cur_signal' = NoSignal
    /\ exec_price' = 0
    /\ result' = NoneResult
    /\ opened' = <<>>
    /\ last_open' = <<>>
    /\ n_fetched' = 0
    /\ agg_fed' = 0
    /\ init_calls' = 0
    /\ init_data' = NoSnapshot
    /\ candle_calls' = 0
    /\ equity_curve' = <<>>
    /\ results' = None
    /\ UNCHANGED <<now, nextId, error, tick_trades, monitorVars, timeframes, dbVars,
                   aggVars, outVars, liveVars, script, sideVars>>

InitTwin ==
    /\ InitWith("init", NewPortfolio(InitialBalance))
    /\ RunIdle /\ MonitorIdle /\ EngineOff /\ AggIdle /\ LiveIdle /\ SideIdle
    /\ mode = "record"
    /\ script = <<>>
    /\ first_run = None
    /\ id_offset = 0

NextTwin == Next \/ Rerun

SpecTwin == InitTwin /\ [][NextTwin]_vars

-----------------------------------------------------------------------------
(* A client of PaperExecutor: it calls execute, close_position and         *)
(* check_price_update in any order, and after execute or close_position    *)
(* updates the portfolio the way Engine._execute_signal and                *)
(* Engine._check_sl_tp do.  The wall clock advances with every call.       *)

PaperPrices == PriceLevels \cup {0}

ExitReasons == {"stop_loss", "take_profit", "signal"}

PaperExecute ==
    /\ pc = "paper" /\ now < MaxClock
    /\ \E sig \in Signals(nextId - 1), price \in PaperPrices :
          LET r == PaperExecutor_execute(sig, price, portfolio)
          IN  /\ cur_signal' = sig
              /\ exec_price' = price
              /\ result' = r.ret
              /\ portfolio' = r.portfolio
              /\ nextId' = IF r.ret.kind = "position" THEN nextId + 1 ELSE nextId
    /\ now' = now + 1
    /\ pc' = "paper_apply"
    /\ UNCHANGED <<current_time, error, engineVars, pending, emitted, known_ids,
                   tick_trades, opened, monitorVars>>
    /\ UNCHANGED <<runVars, dbVars, aggVars>>
    /\ UNCHANGED outVars
    /\ UNCHANGED liveVars
    /\ UNCHANGED twinVars
    /\ UNCHANGED sideVars

PaperApply ==
    /\ pc = "paper_apply"
    /\ LET a == Engine_apply_result(portfolio, result)
       IN  /\ portfolio' = a.portfolio
           /\ error' = a.error
    /\ opened' = OpenedAfter(result)
    /\ cur_signal' = NoSignal
    /\ exec_price' = 0
    /\ result' = NoneResult
    /\ pc' = "paper"
    /\ UNCHANGED <<now, nextId, engineVars, pending, emitted, known_ids, tick_trades,
                   monitorVars>>
    /\ UNCHANGED <<runVars, dbVars, aggVars>>
    /\ UNCHANGED outVars
    /\ UNCHANGED liveVars
    /\ UNCHANGED twinVars
    /\ UNCHANGED sideVars

PaperClose ==
    /\ pc = "paper" /\ now < MaxClock
    /\ \E i \in 1..Len(portfolio.positions), price \in PaperPrices, reason \in ExitReasons :
          /\ snapshot' = <<portfolio.positions[i]>>
          /\ exec_price' = price
          /\ result' = TradeResult(PaperExecutor_close_position(portfolio.positions[i],
                                                                price, reason))
    /\ now' = now + 1
    /\ pc' = "paper_close_apply"
    /\ UNCHANGED <<portfolio, current_time, nextId, error, n_backtest, idx, candle, pending,
                   emitted, known_ids, cur_signal, tick_trades, opened, last_open, monitorVars>>
    /\ UNCHANGED <<runVars, dbVars, aggVars>>
    /\ UNCHANGED outVars
    /\ UNCHANGED liveVars
    /\ UNCHANGED twinVars
    /\ UNCHANGED sideVars

PaperCloseApply ==
    /\ pc = "paper_close_apply"
    /\ IF Portfolio_close_position_found(portfolio, Head(snapshot).id)
       THEN /\ portfolio' = Portfolio_close_position(portfolio, Head(snapshot).id,
                                                     result.trade)
            /\ error' = "none"
       ELSE /\ error' = "ValueError"
            /\ UNCHANGED portfolio
    /\ snapshot' = <<>>
    /\ exec_price' = 0
    /\ result' = NoneResult
    /\ pc' = "paper"
    /\ UNCHANGED <<current_time, now, nextId, n_backtest, idx, candle, pending, emitted,
                   known_ids, cur_signal, tick_trades, opened, last_open, monitorVars>>
    /\ UNCHANGED <<runVars, dbVars, aggVars>>
    /\ UNCHANGED outVars
    /\ UNCHANGED liveVars
    /\ UNCHANGED twinVars
    /\ UNCHANGED sideVars

PaperTick ==
    /\ pc = "paper" /\ now < MaxClock
    /\ \E price \in PaperPrices :
          LET r == PaperExecutor_check_price_update(price, portfolio)
          IN  /\ portfolio' = r.portfolio
              /\ tick_trades' = r.trades
              /\ error' = r.error
              /\ exec_price' = price
    /\ now' = now + 1
    /\ UNCHANGED <<current_time, nextId, pc, engineVars, pending, emitted, known_ids,
                   cur_signal, result, opened, monitorVars>>
    /\ UNCHANGED <<runVars, dbVars, aggVars>>
    /\ UNCHANGED outVars
    /\ UNCHANGED liveVars
    /\ UNCHANGED twinVars
    /\ UNCHANGED sideVars

\* PaperExecutor() and a Portfolio(initial_balance) of its own
InitPaper ==
    /\ InitAt("paper") /\ TwinOff /\ SideIdle /\ LiveIdle /\ RunIdle
    /\ MonitorIdle /\ EngineOff /\ AggIdle

NextPaper ==
    \/ PaperExecute
    \/ PaperApply
    \/ PaperClose
    \/ PaperCloseApply
    \/ PaperTick

SpecPaper == InitPaper /\ [][NextPaper]_vars

-----------------------------------------------------------------------------
(* A client of Portfolio alone, as the unit tests are: positions with      *)
(* fresh ids and trades of its own making.                                 *)

DirectSizes == {300, 500}
DirectPnls == {-50, 50}

DirectPosition(side, size_usd) ==
    [id |-> GenerateId, side |-> side, entry_price |-> 10, entry_time |-> now,
     size |-> size_usd \div 10, size_usd |-> size_usd, stop_loss |-> 9, take_profit |-> 11]

DirectTrade(id, size_usd, pnl) ==
    [id |-> id, side |-> "long", entry_price |-> 10, exit_price |-> 11,
     entry_time |-> 0, exit_time |-> now, size |-> size_usd \div 10, size_usd |-> size_usd,
     pnl |-> pnl, pnl_percent |-> (pnl * 100) \div size_usd, exit_reason |-> "take_profit"]

DirectOpen ==
    /\ pc = "direct" /\ Len(opened) < MaxDirect
    /\ \E side \in {"long", "short"}, size_usd \in DirectSizes :
          /\ portfolio' = Portfolio_open_position(portfolio, DirectPosition(side, size_usd))
          /\ opened' = Append(opened, DirectPosition(side, size_usd))
    /\ nextId' = nextId + 1
    /\ error' = "none"
    /\ result' = NoneResult
    /\ UNCHANGED <<current_time, now, pc, engineVars, pending, emitted, known_ids,
                   cur_signal, exec_price, tick_trades, monitorVars>>
    /\ UNCHANGED <<runVars, dbVars, aggVars>>
    /\ UNCHANGED outVars
    /\ UNCHANGED liveVars
    /\ UNCHANGED twinVars
    /\ UNCHANGED sideVars

\* close_position(id, trade); result keeps the trade that was passed
DirectClose ==
    /\ pc = "direct"
    /\ \E id \in 0..(nextId - 1), size_usd \in DirectSizes, pnl \in DirectPnls :
          /\ portfolio' = Portfolio_close_position(portfolio, id,
                                                   DirectTrade(id, size_usd, pnl))
          /\ error' = IF Portfolio_close_position_found(portfolio, id)
                      THEN "none" ELSE "ValueError"
          /\ result' = TradeResult(DirectTrade(id, size_usd, pnl))
    /\ UNCHANGED <<current_time, now, nextId, pc, engineVars, pending, emitted, known_ids,
                   cur_signal, exec_price, tick_trades, opened, monitorVars>>
    /\ UNCHANGED <<runVars, dbVars, aggVars>>
    /\ UNCHANGED outVars
    /\ UNCHANGED liveVars
    /\ UNCHANGED twinVars
    /\ UNCHANGED sideVars

DirectUpdatePrice ==
    /\ pc = "direct"
    /\ \E price \in {10, 11} : portfolio' = Portfolio_update_price(portfolio, price)
    /\ error' = "none"
    /\ result' = NoneResult
    /\ UNCHANGED <<current_time, now, nextId, pc, engineVars, pending, emitted, known_ids,
                   cur_signal, exec_price, tick_trades, opened, monitorVars>>
    /\ UNCHANGED <<runVars, dbVars, aggVars>>
    /\ UNCHANGED outVars
    /\ UNCHANGED liveVars
    /\ UNCHANGED twinVars
    /\ UNCHANGED sideVars

InitPortfolio ==
    /\ InitAt("direct") /\ TwinOff /\ SideIdle /\ LiveIdle /\ RunIdle
    /\ MonitorIdle /\ EngineOff /\ AggIdle

NextPortfolio ==
    \/ DirectOpen
    \/ DirectClose
    \/ DirectUpdatePrice

SpecPortfolio == InitPortfolio /\ [][NextPortfolio]_vars

-----------------------------------------------------------------------------
(* A client of Engine._restore_state, as tests/test_engine_persistence.py  *)
(* is: an engine with persistence whose store and whose portfolio in       *)
(* memory are filled independently before _restore_state is called.        *)

\* the positions a store or a memory may hold; two of them share an id
StorePositions ==
    {StorePosition(1, "long", 500), StorePosition(1, "long", 300),
     StorePosition(2, "short", 300)}

RestorePcs == {"store", "restored"}

\* db.save_position(position)
StoreSavePosition ==
    /\ pc \in RestorePcs /\ now < MaxClock
    /\ \E p \in StorePositions : db' = Database_save_position(db, p)
    /\ now' = now + 1
    /\ pc' = "store"
    /\ UNCHANGED <<portfolio, current_time, nextId, error, engineVars, callVars,
                   tick_trades, opened, monitorVars, runVars, persist, aggVars>>
    /\ UNCHANGED outVars
    /\ UNCHANGED liveVars
    /\ UNCHANGED twinVars
    /\ UNCHANGED sideVars

\* db.delete_position(id)
StoreDeletePosition ==
    /\ pc \in RestorePcs /\ now < MaxClock
    /\ \E id \in 1..2 : db' = Database_delete_position(db, id)
    /\ now' = now + 1
    /\ pc' = "store"
    /\ UNCHANGED <<portfolio, current_time, nextId, error, engineVars, callVars,
                   tick_trades, opened, monitorVars, runVars, persist, aggVars>>
    /\ UNCHANGED outVars
    /\ UNCHANGED liveVars
    /\ UNCHANGED twinVars
    /\ UNCHANGED sideVars

\* db.save_portfolio(a portfolio with this balance)
StoreSavePortfolio ==
    /\ pc \in RestorePcs /\ now < MaxClock
    /\ \E b \in StoredBalances :
          db' = Database_save_portfolio(db, [NewPortfolio(InitialBalance)
                                                EXCEPT !.balance = b])
    /\ now' = now + 1
    /\ pc' = "store"
    /\ UNCHANGED <<portfolio, current_time, nextId, error, engineVars, callVars,
                   tick_trades, opened, monitorVars, runVars, persist, aggVars>>
    /\ UNCHANGED outVars
    /\ UNCHANGED liveVars
    /\ UNCHANGED twinVars
    /\ UNCHANGED sideVars

\* engine.portfolio gets a position the store may not know
MemoryOpen ==
    /\ pc \in RestorePcs /\ now < MaxClock
    /\ \E p \in StorePositions :
          /\ portfolio' = Portfolio_open_position(portfolio, p)
          /\ opened' = Append(opened, p)
    /\ now' = now + 1
    /\ pc' = "store"
    /\ UNCHANGED <<current_time, nextId, error, engineVars, callVars,
                   tick_trades, monitorVars, runVars, dbVars, aggVars>>
    /\ UNCHANGED outVars
    /\ UNCHANGED liveVars
    /\ UNCHANGED twinVars
    /\ UNCHANGED sideVars

\* await engine._restore_state()
Restore ==
    /\ pc \in RestorePcs
    /\ portfolio' = Engine_restore_state(portfolio, db)
    /\ pc' = "restored"
    /\ UNCHANGED <<current_time, now, nextId, error, engineVars, callVars,
                   tick_trades, opened, monitorVars, runVars, dbVars, aggVars>>
    /\ UNCHANGED outVars
    /\ UNCHANGED liveVars
    /\ UNCHANGED twinVars
    /\ UNCHANGED sideVars

\* Engine(..., persist=True) with an initialized Database
InitRestore ==
    /\ InitAt("store") /\ TwinOff /\ SideIdle /\ LiveIdle /\ RunIdle /\ MonitorIdle /\ AggIdle
    /\ timeframes = StrategyTimeframes
    /\ persist = TRUE
    /\ db = Database_initialize(NoDb)

NextRestore ==
    \/ StoreSavePosition
    \/ StoreDeletePosition
    \/ StoreSavePortfolio
    \/ MemoryOpen
    \/ Restore

SpecRestore == InitRestore /\ [][NextRestore]_vars

-----------------------------------------------------------------------------
(* Both executors (the backtest engine, the paper client), and every use   *)
(* of the portfolio (those two and the direct client), each from its own   *)
(* initial state.                                                          *)

InitExec == Init \/ InitPaper

NextExec == Next \/ NextPaper

SpecExec == InitExec /\ [][NextExec]_vars

InitAll == Init \/ InitPaper \/ InitPortfolio

NextAll == Next \/ NextPaper \/ NextPortfolio

SpecAll == InitAll /\ [][NextAll]_vars

-----------------------------------------------------------------------------
(* Calls of SLTPMonitor.check and SLTPMonitor.resolve on supplied data *)

MonitorPositions ==
    {[id |-> 0, side |-> "long", stop_loss |-> 9, take_profit |-> 11],
     [id |-> 0, side |-> "short", stop_loss |-> 11, take_profit |-> 9]}

\* candles by range: wide (both levels), low only, high only, inside
RangeCandles == {MkCandle(0, lo, hi, 10) : lo \in {9, 10}, hi \in {10, 11}}

SubCandleLists == UNION {[1..n -> RangeCandles] : n \in 0..MaxSub}

\* available_candles: None, an empty dict, or a dict with 1m and 5m candles
AvailableCandles ==
    {None, Some(<<>>)} \cup {Some(d) : d \in [{"1m", "5m"} -> SubCandleLists]}

MonitorTimeframes == {"1m", "5m", "15m"}

InitMonitor ==
    /\ InitAt("monitor") /\ TwinOff /\ SideIdle /\ LiveIdle /\ RunIdle
    /\ EngineOff
    /\ AggIdle
    /\ m_position \in MonitorPositions
    /\ m_candle \in RangeCandles
    /\ m_available \in AvailableCandles
    /\ m_tf \in MonitorTimeframes
    /\ m_op = "idle"
    /\ m_result = "none"

MonitorCheck ==
    /\ pc = "monitor" /\ m_op = "idle"
    /\ m_result' = SLTPMonitor_check(m_position, m_candle, m_available, m_tf)
    /\ m_op' = "check"
    /\ UNCHANGED <<portfolio, current_time, now, nextId, pc, error, engineVars, callVars,
                   tick_trades, opened, last_open, m_position, m_candle, m_available, m_tf>>
    /\ UNCHANGED <<runVars, dbVars, aggVars>>
    /\ UNCHANGED outVars
    /\ UNCHANGED liveVars
    /\ UNCHANGED twinVars
    /\ UNCHANGED sideVars

\* resolve is for a candle on which both levels are hit, with a dict
MonitorResolve ==
    /\ pc = "monitor" /\ m_op = "idle"
    /\ m_available # None
    /\ SLTPMonitor_sl_hit(m_position, m_candle) /\ SLTPMonitor_tp_hit(m_position, m_candle)
    /\ m_result' = SLTPMonitor_resolve(m_position, m_candle, Val(m_available), m_tf)
    /\ m_op' = "resolve"
    /\ UNCHANGED <<portfolio, current_time, now, nextId, pc, error, engineVars, callVars,
                   tick_trades, opened, last_open, m_position, m_candle, m_available, m_tf>>
    /\ UNCHANGED <<runVars, dbVars, aggVars>>
    /\ UNCHANGED outVars
    /\ UNCHANGED liveVars
    /\ UNCHANGED twinVars
    /\ UNCHANGED sideVars

NextMonitor ==
    \/ MonitorCheck
    \/ MonitorResolve

SpecMonitor == InitMonitor /\ [][NextMonitor]_vars

-----------------------------------------------------------------------------
(* A client of TimeframeAggregator and of the timeframe functions, as the  *)
(* unit tests are: it constructs an aggregator, feeds it a contiguous 1m   *)
(* stream through update and warm_up, and queries timeframe labels.        *)

\* timeframes lists a client declares; "2m" is not a timeframe
TimeframeLists ==
    {<<"1m", "5m">>, <<"5m", "15m">>, <<"1m", "1h", "4h">>, <<"1d", "1w">>, <<"1m", "2m">>}

\* max_history a client passes; the constructor accepts any integer
MaxHistories == {0, 2, DefaultMaxHistory}

\* first minute of the stream: Monday 00:00, Monday 00:03, Sunday 23:45
StreamStarts == {0, 3, 10065}

Patterns == {1, 2}

\* labels a query is made with
QueryLabels == {"1m", "5m", "1w", "2m"}

\* the 1m candle the provider delivers for minute ts in stream p
StreamCandle(p, ts) ==
    LET op == 9 + ((2 * ts + p) % 3)
        cl == 9 + ((ts + p) % 3)
    IN  FullCandle(ts, op, Max(op, cl) + ((ts \div 2 + p) % 2),
                   Min(op, cl) - ((ts + 2 * p) % 2), cl,
                   1 + ((ts * p) % 3), 100 + (ts % 4), (ts % 5) - 2)

RECURSIVE StreamCandles(_, _, _)
StreamCandles(p, ts, n) ==
    IF n = 0 THEN <<>> ELSE <<StreamCandle(p, ts)>> \o StreamCandles(p, ts + 1, n - 1)

AggConstruct ==
    /\ pc = "agg" /\ agg = None /\ a_error = "none"
    /\ \E tfs \in TimeframeLists, max_history \in MaxHistories :
          IF TimeframeAggregator_post_init_raises(tfs)
          THEN a_error' = "ValueError" /\ UNCHANGED agg
          ELSE agg' = Some(TimeframeAggregator_post_init(tfs, max_history))
               /\ UNCHANGED a_error
    /\ UNCHANGED <<portfolio, current_time, now, nextId, pc, error, engineVars, callVars,
                   tick_trades, opened, monitorVars, runVars, dbVars, a_next, a_pattern,
                   a_fed, a_mtf, q_op, q_label, q_error, q_value>>
    /\ UNCHANGED outVars
    /\ UNCHANGED liveVars
    /\ UNCHANGED twinVars
    /\ UNCHANGED sideVars

AggUpdate ==
    /\ pc = "agg" /\ agg # None /\ Len(a_fed) < MaxFeed
    /\ LET r == TimeframeAggregator_update(Val(agg), StreamCandle(a_pattern, a_next))
       IN  /\ agg' = Some(r.agg)
           /\ a_mtf' = Some(r.mtf)
    /\ a_fed' = Append(a_fed, StreamCandle(a_pattern, a_next))
    /\ a_next' = a_next + 1
    /\ UNCHANGED <<portfolio, current_time, now, nextId, pc, error, engineVars, callVars,
                   tick_trades, opened, monitorVars, runVars, dbVars, a_pattern, a_error,
                   q_op, q_label, q_error, q_value>>
    /\ UNCHANGED outVars
    /\ UNCHANGED liveVars
    /\ UNCHANGED twinVars
    /\ UNCHANGED sideVars

AggWarmUp ==
    /\ pc = "agg" /\ agg # None
    /\ \E n \in 1..2 :
          /\ Len(a_fed) + n <= MaxFeed
          /\ agg' = Some(TimeframeAggregator_warm_up(
                             Val(agg), StreamCandles(a_pattern, a_next, n)))
          /\ a_fed' = a_fed \o StreamCandles(a_pattern, a_next, n)
          /\ a_next' = a_next + n
    /\ UNCHANGED <<portfolio, current_time, now, nextId, pc, error, engineVars, callVars,
                   tick_trades, opened, monitorVars, runVars, dbVars, a_pattern, a_mtf,
                   a_error, q_op, q_label, q_error, q_value>>
    /\ UNCHANGED outVars
    /\ UNCHANGED liveVars
    /\ UNCHANGED twinVars
    /\ UNCHANGED sideVars

QueryGetHistory ==
    /\ pc = "agg" /\ agg # None
    /\ \E tf \in QueryLabels :
          /\ q_label' = tf
          /\ q_value' = Some(TimeframeAggregator_get_history(Val(agg), tf))
    /\ q_op' = "get_history"
    /\ q_error' = "none"
    /\ UNCHANGED <<portfolio, current_time, now, nextId, pc, error, engineVars, callVars,
                   tick_trades, opened, monitorVars, runVars, dbVars, agg, a_next,
                   a_pattern, a_fed, a_mtf, a_error>>
    /\ UNCHANGED outVars
    /\ UNCHANGED liveVars
    /\ UNCHANGED twinVars
    /\ UNCHANGED sideVars

QueryGetTimeframeMinutes ==
    /\ pc = "agg"
    /\ \E tf \in QueryLabels :
          /\ q_label' = tf
          /\ IF get_timeframe_minutes_raises(tf)
             THEN q_error' = "ValueError" /\ q_value' = None
             ELSE q_error' = "none" /\ q_value' = Some(get_timeframe_minutes(tf))
    /\ q_op' = "get_timeframe_minutes"
    /\ UNCHANGED <<portfolio, current_time, now, nextId, pc, error, engineVars, callVars,
                   tick_trades, opened, monitorVars, runVars, dbVars, agg, a_next,
                   a_pattern, a_fed, a_mtf, a_error>>
    /\ UNCHANGED outVars
    /\ UNCHANGED liveVars
    /\ UNCHANGED twinVars
    /\ UNCHANGED sideVars

QueryGetLowerTimeframe ==
    /\ pc = "agg"
    /\ \E tf \in QueryLabels :
          /\ q_label' = tf
          /\ IF get_lower_timeframe_raises(tf)
             THEN q_error' = "ValueError" /\ q_value' = None
             ELSE q_error' = "none" /\ q_value' = Some(get_lower_timeframe(tf))
    /\ q_op' = "get_lower_timeframe"
    /\ UNCHANGED <<portfolio, current_time, now, nextId, pc, error, engineVars, callVars,
                   tick_trades, opened, monitorVars, runVars, dbVars, agg, a_next,
                   a_pattern, a_fed, a_mtf, a_error>>
    /\ UNCHANGED outVars
    /\ UNCHANGED liveVars
    /\ UNCHANGED twinVars
    /\ UNCHANGED sideVars

InitAgg ==
    /\ InitAt("agg") /\ TwinOff /\ SideIdle /\ LiveIdle /\ RunIdle
    /\ MonitorIdle
    /\ EngineOff
    /\ agg = None
    /\ a_next \in StreamStarts
    /\ a_pattern \in Patterns
    /\ a_fed = <<>>
    /\ a_mtf = None
    /\ a_error = "none"
    /\ q_op = "none"
    /\ q_label = "1m"
    /\ q_error = "none"
    /\ q_value = None

NextAgg ==
    \/ AggConstruct
    \/ AggUpdate
    \/ AggWarmUp
    \/ QueryGetHistory
    \/ QueryGetTimeframeMinutes
    \/ QueryGetLowerTimeframe

SpecAgg == InitAgg /\ [][NextAgg]_vars

-----------------------------------------------------------------------------
(* analysis/metrics.py: a client hands a trade list and an equity curve to *)
(* the metric functions. A float quotient is kept as its numerator and its *)
(* denominator.                                                            *)

MaxTrades == 3

MaxPoints == 3

\* pnl of the trades and equity of the points a client may hand over
MetricPnls == {-50, 0, 50}

MetricEquities == {-50, 0, 50, 100}

Ratio(n, d) == [num |-> n, den |-> d]

\* 0.0
ZeroRatio == Ratio(0, 1)

\* float("inf")
Infinity == Ratio(1, 0)

\* a <= b for quotients with positive denominators
RatioLeq(a, b) == a.num * b.den <= b.num * a.den

\* max(a, b) of Python: b only when it is greater
RatioMax(a, b) == IF RatioLeq(b, a) THEN a ELSE b

RECURSIVE SumPnlWhere(_, _)
SumPnlWhere(trades, sign) ==
    IF trades = <<>> THEN 0
    ELSE (IF Head(trades).pnl * sign > 0 THEN Head(trades).pnl ELSE 0)
             + SumPnlWhere(Tail(trades), sign)

Winners(trades) == Cardinality({i \in 1..Len(trades) : trades[i].pnl > 0})

Abs(x) == IF x < 0 THEN -x ELSE x

calculate_win_rate(trades) ==
    IF trades = <<>> THEN ZeroRatio ELSE Ratio(Winners(trades), Len(trades))

calculate_profit_factor(trades) ==
    IF trades = <<>> THEN ZeroRatio
    ELSE LET gross_profit == SumPnlWhere(trades, 1)
             gross_loss == Abs(SumPnlWhere(trades, -1))
         IN  IF gross_loss = 0
             THEN (IF gross_profit > 0 THEN Infinity ELSE ZeroRatio)
             ELSE Ratio(gross_profit, gross_loss)

\* the loop of calculate_max_drawdown over the points left
RECURSIVE max_drawdown_loop(_, _, _)
max_drawdown_loop(points, peak, max_dd) ==
    IF points = <<>> THEN max_dd
    ELSE LET equity == Head(points).equity
             new_peak == IF equity > peak THEN equity ELSE peak
             dd == Ratio(new_peak - equity, new_peak)
         IN  max_drawdown_loop(Tail(points), new_peak,
                               IF new_peak > 0 THEN RatioMax(max_dd, dd) ELSE max_dd)

calculate_max_drawdown(equity_curve_arg) ==
    IF Len(equity_curve_arg) <= 1 THEN ZeroRatio
    ELSE max_drawdown_loop(equity_curve_arg, equity_curve_arg[1].equity, ZeroRatio)

\* what the client's other variables are left as
MetricsFrame ==
    /\ UNCHANGED <<portfolio, now, nextId, pc, error, engineVars, callVars, tick_trades,
                   opened, monitorVars, runVars, dbVars, aggVars>>
    /\ UNCHANGED outVars
    /\ UNCHANGED liveVars
    /\ UNCHANGED twinVars
    /\ UNCHANGED <<market, fetchVars>>

\* the client closes one more trade
MetricsAddTrade ==
    /\ pc = "metrics" /\ Len(trade_list) < MaxTrades
    /\ \E pnl \in MetricPnls : trade_list' = Append(trade_list, [pnl |-> pnl])
    /\ report' = None
    /\ UNCHANGED equity_points
    /\ MetricsFrame

\* the client records one more equity point
MetricsAddPoint ==
    /\ pc = "metrics" /\ Len(equity_points) < MaxPoints
    /\ \E equity \in MetricEquities :
          equity_points' = Append(equity_points, EquityPoint(Len(equity_points), equity))
    /\ report' = None
    /\ UNCHANGED trade_list
    /\ MetricsFrame

\* the client calls the three metric functions
MetricsCalculate ==
    /\ pc = "metrics" /\ report = None
    /\ report' = Some([win_rate |-> calculate_win_rate(trade_list),
                       profit_factor |-> calculate_profit_factor(trade_list),
                       max_drawdown |-> calculate_max_drawdown(equity_points)])
    /\ UNCHANGED <<trade_list, equity_points>>
    /\ MetricsFrame

InitMetrics ==
    /\ InitAt("metrics") /\ TwinOff /\ LiveIdle /\ RunIdle /\ MonitorIdle /\ EngineOff
    /\ AggIdle /\ CalmMarket /\ MetricsIdle /\ FetchIdle

NextMetrics ==
    \/ MetricsAddTrade
    \/ MetricsAddPoint
    \/ MetricsCalculate

SpecMetrics == InitMetrics /\ [][NextMetrics]_vars

-----------------------------------------------------------------------------
(* data/historical.py: _fetch_from_exchange, the pagination loop around    *)
(* exchange.fetch_ohlcv. Timestamps are counted in candles of the          *)
(* timeframe asked for (tf_ms = 1).                                        *)

\* rows the exchange returns for one request (limit=MAX_CANDLES_PER_REQUEST)
MaxPage == 2

\* the failed requests in a row the history counts before it saturates
MaxRetries == 3

\* start_ms and end_ms of the range asked for
FetchStarts == {0, 1}

FetchEnds == {0, 2, 3}

\* the rows of a page of n candles from since: their timestamps
PageRows(from, n) == [i \in 1..n |-> from + i - 1]

\* for row in ohlcv: break at the first row past end_ms, append the others
RECURSIVE AppendRows(_, _, _)
AppendRows(candles, rows, last_ms) ==
    IF rows = <<>> \/ Head(rows) > last_ms THEN candles
    ELSE AppendRows(Append(candles, Head(rows)), Tail(rows), last_ms)

\* what the loop's other variables are left as
FetchFrame ==
    /\ UNCHANGED <<portfolio, current_time, now, nextId, error, n_backtest, idx, candle,
                   snapshot, callVars, tick_trades, opened, last_open, monitorVars>>
    /\ UNCHANGED <<runVars, dbVars, aggVars>>
    /\ UNCHANGED outVars
    /\ UNCHANGED liveVars
    /\ UNCHANGED twinVars
    /\ UNCHANGED <<market, metricVars, end_ms>>

\* while since < end_ms is false: return all_candles
FetchReturn ==
    /\ pc = "f_request" /\ ~(since < end_ms)
    /\ pc' = "f_returned"
    /\ UNCHANGED <<since, all_candles, retries, slept>>
    /\ FetchFrame

\* fetch_ohlcv returns a page: an empty page breaks the loop, the rows of
\* any other are appended up to end_ms and since moves past the last row
FetchPage ==
    /\ pc = "f_request" /\ since < end_ms
    /\ \E n \in 0..MaxPage :
          IF n = 0
          THEN pc' = "f_returned" /\ UNCHANGED <<since, all_candles>>
          ELSE /\ all_candles' = AppendRows(all_candles, PageRows(since, n), end_ms)
               /\ since' = PageRows(since, n)[n] + 1
               /\ UNCHANGED pc
    /\ retries' = 0
    /\ UNCHANGED slept
    /\ FetchFrame

\* except ccxt.RateLimitExceeded: sleep(5), continue
FetchRateLimited ==
    /\ pc = "f_request" /\ since < end_ms
    /\ slept' = 5
    /\ retries' = Min(retries + 1, MaxRetries)
    /\ pc' = "f_sleep"
    /\ UNCHANGED <<since, all_candles>>
    /\ FetchFrame

\* except ccxt.NetworkError: sleep(3), continue
FetchNetworkError ==
    /\ pc = "f_request" /\ since < end_ms
    /\ slept' = 3
    /\ retries' = Min(retries + 1, MaxRetries)
    /\ pc' = "f_sleep"
    /\ UNCHANGED <<since, all_candles>>
    /\ FetchFrame

\* the sleep is over: back to the head of the loop
FetchSleepDone ==
    /\ pc = "f_sleep"
    /\ pc' = "f_request"
    /\ UNCHANGED <<since, all_candles, retries, slept>>
    /\ FetchFrame

\* fetch_ohlcv raises anything else: no except clause, the caller gets it
FetchRaises ==
    /\ pc = "f_request" /\ since < end_ms
    /\ pc' = "f_raised"
    /\ UNCHANGED <<since, all_candles, retries, slept>>
    /\ FetchFrame

InitFetch ==
    /\ InitWith("f_request", NewPortfolio(InitialBalance))
    /\ TwinOff /\ LiveIdle /\ RunIdle /\ MonitorIdle /\ EngineOff /\ AggIdle
    /\ CalmMarket /\ MetricsIdle
    /\ since \in FetchStarts
    /\ end_ms \in FetchEnds
    /\ all_candles = <<>>
    /\ retries = 0
    /\ slept = 0

NextFetch ==
    \/ FetchReturn
    \/ FetchPage
    \/ FetchRateLimited
    \/ FetchNetworkError
    \/ FetchSleepDone
    \/ FetchRaises

\* the event loop runs the coroutine whenever it can take a step
SpecFetch == InitFetch /\ [][NextFetch]_vars /\ WF_vars(NextFetch)

-----------------------------------------------------------------------------
(* Properties *)

RECURSIVE SumSizeUsd(_)
SumSizeUsd(seq) == IF seq = <<>> THEN 0 ELSE Head(seq).size_usd + SumSizeUsd(Tail(seq))

RECURSIVE SumPnl(_)
SumPnl(trades) == IF trades = <<>> THEN 0 ELSE Head(trades).pnl + SumPnl(Tail(trades))

\* the position, as it was opened, that carries this id
OpenedById(id) == opened[CHOOSE j \in 1..Len(opened) : opened[j].id = id]

EnginePcs == {"init", "loop", "sltp", "sltp_apply", "strategy", "exec", "exec_apply",
              "force", "force_apply", "done", "raised"}

\* C1, as stated: balance = B - (sum of size_usd over the currently open
\* positions) + (sum of size_usd + pnl over the closed trades).
C1_BalanceOverCurrentlyOpen ==
    portfolio.balance = portfolio.initial_balance - SumSizeUsd(portfolio.positions)
                        + SumSizeUsd(portfolio.trades) + SumPnl(portfolio.trades)

\* C1, amended: balance = B - (sum of size_usd over every position passed to
\* open_position so far, open or since closed) + (sum of size_usd + pnl over
\* the closed trades).
C1_BalanceOverOpened ==
    portfolio.balance = portfolio.initial_balance - SumSizeUsd(opened)
                        + SumSizeUsd(portfolio.trades) + SumPnl(portfolio.trades)

\* one position is open while another has been closed at a profit or loss
C1_Witness ==
    /\ Len(portfolio.positions) >= 1
    /\ \E t \in Range(portfolio.trades) : t.pnl # 0 /\ t.size_usd > 0

\* every closing trade carries the size_usd of the position it closed
TradesCarrySizeUsd ==
    \A t \in Range(portfolio.trades) :
        \E p \in Range(opened) : p.id = t.id /\ p.size_usd = t.size_usd

\* C2: when every closing trade carries the size_usd of its position,
\* balance + (size_usd of the open positions) = initial_balance + (pnl of the
\* closed trades); and after open(size_usd 500), close(pnl 50) the balance is
\* initial + 50 with one trade and no open position.
C2_MoneyConserved ==
    /\ TradesCarrySizeUsd =>
          portfolio.balance + SumSizeUsd(portfolio.positions)
              = portfolio.initial_balance + SumPnl(portfolio.trades)
    /\ (/\ Len(opened) = 1 /\ opened[1].size_usd = 500
        /\ Len(portfolio.trades) = 1 /\ portfolio.trades[1].size_usd = 500
        /\ portfolio.trades[1].pnl = 50)
       => /\ portfolio.balance = portfolio.initial_balance + 50
          /\ portfolio.positions = <<>>

\* the direct client opened 500 and closed it with pnl 50
C2_Witness ==
    /\ pc = "direct"
    /\ Len(opened) = 1 /\ opened[1].size_usd = 500
    /\ Len(portfolio.trades) = 1 /\ portfolio.trades[1].size_usd = 500
    /\ portfolio.trades[1].pnl = 50
    /\ portfolio.balance = portfolio.initial_balance + 50

Hit(p, c) == SLTPMonitor_sl_hit(p, c) \/ SLTPMonitor_tp_hit(p, c)

\* a trade of this id was made by the stop on the current candle
ClosedByStopOnCandle(id) ==
    \E t \in Range(portfolio.trades) :
        t.id = id /\ t.exit_time = candle.timestamp /\ t.exit_reason = "stop_loss"

\* C3: when on_candle is called for candle C the SL/TP phase for C is over:
\* no open position is hit by C, every position ever opened that C hits has
\* its trade, the trades made on C so far are stop/target exits (stop_loss
\* when the stop was hit), and a close signal that names a position the stop
\* closed on C is answered with None.
C3_SlTpBeforeStrategy ==
    /\ pc = "strategy" =>
          /\ \A p \in Range(portfolio.positions) : ~Hit(p, candle)
          /\ \A p \in Range(opened) :
                Hit(p, candle) => \E t \in Range(portfolio.trades) : t.id = p.id
          /\ \A t \in Range(portfolio.trades) :
                t.exit_time = candle.timestamp =>
                    t.exit_reason = IF SLTPMonitor_sl_hit(OpenedById(t.id), candle)
                                    THEN "stop_loss" ELSE "take_profit"
    /\ (/\ pc = "exec_apply" /\ cur_signal.direction = "close"
        /\ cur_signal.position_id # None
        /\ ClosedByStopOnCandle(Val(cur_signal.position_id)))
       => result = NoneResult

\* the strategy's close signal names a position the stop closed on this candle
C3_Witness ==
    /\ pc = "exec_apply" /\ cur_signal.direction = "close"
    /\ cur_signal.position_id # None
    /\ ClosedByStopOnCandle(Val(cur_signal.position_id))

ExactExit(t) ==
    LET p == OpenedById(t.id)
    IN  /\ t.exit_reason = "stop_loss" => t.exit_price = p.stop_loss
        /\ t.exit_reason = "take_profit" => t.exit_price = p.take_profit

\* C4: a trade made by an SL/TP trigger (every stop_loss / take_profit trade
\* of the engine's ledger, every trade check_price_update returns) exits at
\* exactly the position's stop_loss, resp. take_profit.
C4_ExactExitPrice ==
    /\ pc \in EnginePcs => \A t \in Range(portfolio.trades) : ExactExit(t)
    /\ \A t \in Range(tick_trades) :
          t.exit_reason \in {"stop_loss", "take_profit"} /\ ExactExit(t)

\* the engine closed a position by its stop on a candle that closed elsewhere
C4_Witness ==
    /\ pc \in EnginePcs
    /\ \E t \in Range(portfolio.trades) :
          /\ t.exit_reason = "stop_loss" /\ t.exit_time = candle.timestamp
          /\ t.exit_price # candle.close

BothHit(p, c) == SLTPMonitor_sl_hit(p, c) /\ SLTPMonitor_tp_hit(p, c)

\* the next-lower timeframe of the timeframes the monitor is called with
LowerOf(tf) == CASE tf = "15m" -> "5m" [] tf = "5m" -> "1m" [] OTHER -> "none"

\* the sub-candles supplied for a candle of timeframe tf
SubsFor(available, tf) ==
    IF available = None \/ tf = "1m" THEN <<>> ELSE DictGet(Val(available), LowerOf(tf))

\* C5: on a candle that hits both levels check returns stop_loss when no
\* drill-down data is supplied, the timeframe is 1m or the next-lower
\* timeframe has no candles; it returns take_profit only if some supplied
\* sub-candle hits the target and no earlier one hits the stop.
C5_ConservativeTieBreak ==
    (m_op = "check" /\ BothHit(m_position, m_candle)) =>
        LET subs == SubsFor(m_available, m_tf)
        IN  /\ m_result \in {"stop_loss", "take_profit"}
            /\ subs = <<>> => m_result = "stop_loss"
            /\ m_result = "take_profit" =>
                  \E i \in 1..Len(subs) :
                      /\ SLTPMonitor_tp_hit(m_position, subs[i])
                      /\ \A j \in 1..(i - 1) : ~SLTPMonitor_sl_hit(m_position, subs[j])

\* check drilled down and found the target first
C5_Witness ==
    /\ m_op = "check" /\ BothHit(m_position, m_candle)
    /\ m_result = "take_profit"

\* what the claim says resolve returns for a both-hit candle c of timeframe
\* tf: the outcome of the first supplied sub-candle that hits a level
RECURSIVE FirstHitOutcome(_, _, _, _)
FirstHitOutcome(p, c, available, tf) ==
    LET subs == SubsFor(Some(available), tf)
        hits == {i \in 1..Len(subs) : Hit(p, subs[i])}
        first == CHOOSE i \in hits : \A j \in hits : i <= j
    IN  IF hits = {} THEN "stop_loss"
        ELSE IF BothHit(p, subs[first])
             THEN FirstHitOutcome(p, subs[first], available, LowerOf(tf))
        ELSE IF SLTPMonitor_sl_hit(p, subs[first]) THEN "stop_loss"
        ELSE "take_profit"

\* C6: resolve returns the outcome of the first supplied sub-candle that hits
\* a level, recursing when it hits both, skipping those that hit neither;
\* the result is stop_loss or take_profit.
C6_ResolveFirstHit ==
    m_op = "resolve" =>
        /\ m_result \in {"stop_loss", "take_profit"}
        /\ m_result = FirstHitOutcome(m_position, m_candle, Val(m_available), m_tf)

\* the first sub-candle hits neither level, the second only the target
C6_Witness ==
    /\ m_op = "resolve"
    /\ LET subs == SubsFor(m_available, m_tf)
       IN  /\ Len(subs) >= 2
           /\ ~Hit(m_position, subs[1])
           /\ SLTPMonitor_tp_hit(m_position, subs[2])
           /\ ~SLTPMonitor_sl_hit(m_position, subs[2])
    /\ m_result = "take_profit"

ApplyPcs == {"exec_apply", "paper_apply"}

\* a step in which an executor's execute or close_position runs
ExecutorCallStep ==
    \/ pc = "exec" /\ pc' = "exec_apply"
    \/ pc = "paper" /\ pc' \in {"paper_apply", "paper_close_apply"}
    \/ pc = "sltp" /\ pc' = "sltp_apply"
    \/ pc = "force" /\ pc' = "force_apply"

\* C7: execute and close_position of both executors leave the portfolio
\* (balance, positions, trades, current price) as it was.
C7_ExecutorLeavesPortfolio == [][ExecutorCallStep => portfolio' = portfolio]_vars

\* execute returned a new Position that the portfolio does not hold yet
C7_Witness ==
    /\ pc \in ApplyPcs /\ result.kind = "position"
    /\ \A p \in Range(portfolio.positions) : p.id # result.position.id
    /\ portfolio.balance >= result.position.size_usd

\* the rejection condition of an open signal, as the claim lists it
Rejected(sig, price, pf) ==
    \/ sig.size_percent = None
    \/ sig.stop_loss = None
    \/ sig.take_profit = None
    \/ (Portfolio_equity(pf) * Val(sig.size_percent)) \div 100 <= 0
    \/ (Portfolio_equity(pf) * Val(sig.size_percent)) \div 100 > pf.balance
    \/ price <= 0

\* C8: execute answers an open signal with None exactly when the claim's
\* rejection condition holds (so size_usd = balance is accepted), and the
\* engine then changes nothing and raises nothing.
C8_OpenRejectedIff ==
    /\ [](pc \in ApplyPcs /\ cur_signal.direction \in {"long", "short"} =>
            /\ result = NoneResult <=> Rejected(cur_signal, exec_price, portfolio)
            /\ result # NoneResult => result.kind = "position")
    /\ [][(pc \in ApplyPcs /\ result = NoneResult) =>
            (portfolio' = portfolio /\ opened' = opened /\ error' = "none")]_vars

\* an open signal whose size_usd equals the balance was accepted
C8_Witness ==
    /\ pc \in ApplyPcs /\ result.kind = "position"
    /\ result.position.size_usd = portfolio.balance

\* C9: a close signal with the id of an open position returns that
\* position's trade; without id it returns the trade of the first, oldest
\* open position; otherwise None.  The update that follows removes at most
\* one position.
C9_CloseSignal ==
    /\ [](pc \in ApplyPcs /\ cur_signal.direction = "close" =>
            IF cur_signal.position_id # None
            THEN IF \E p \in Range(portfolio.positions) : p.id = Val(cur_signal.position_id)
                 THEN /\ result.kind = "trade"
                      /\ result.trade.id = Val(cur_signal.position_id)
                      /\ result.trade.exit_reason = "signal"
                 ELSE result = NoneResult
            ELSE IF portfolio.positions # <<>>
                 THEN /\ result.kind = "trade"
                      /\ result.trade.id = portfolio.positions[1].id
                      /\ result.trade.exit_reason = "signal"
                      /\ \A p \in Range(portfolio.positions) :
                            portfolio.positions[1].entry_time <= p.entry_time
                 ELSE result = NoneResult)
    /\ [][(pc \in ApplyPcs /\ cur_signal.direction = "close") =>
            Len(portfolio'.positions) >= Len(portfolio.positions) - 1]_vars

\* a close signal without id met two open positions
C9_Witness ==
    /\ pc \in ApplyPcs /\ cur_signal.direction = "close"
    /\ cur_signal.position_id = None
    /\ Len(portfolio.positions) >= 2
    /\ portfolio.positions[1].entry_time < portfolio.positions[2].entry_time
    /\ result.kind = "trade"

TradesOf(id) == {i \in 1..Len(portfolio.trades) : portfolio.trades[i].id = id}

\* C10: when run_backtest has returned after at least one backtest candle no
\* position is open, and every position that was open when the loop ended
\* has exactly one trade: exit_reason signal, at the last candle's close and
\* timestamp.
C10_ForceClose ==
    (pc = "done" /\ idx >= 1) =>
        /\ portfolio.positions = <<>>
        /\ \A p \in Range(last_open) :
              /\ Cardinality(TradesOf(p.id)) = 1
              /\ \A i \in TradesOf(p.id) :
                    /\ portfolio.trades[i].exit_reason = "signal"
                    /\ portfolio.trades[i].exit_price = candle.close
                    /\ portfolio.trades[i].exit_time = candle.timestamp

\* the run ended with two positions open, entered away from the last close
C10_Witness ==
    /\ pc = "done" /\ idx >= 1
    /\ Len(last_open) >= 2
    /\ \E p \in Range(last_open) : p.entry_price # candle.close

\* the completion rule of a higher timeframe: the 1m candle of minute ts is
\* the last minute of the timeframe's bucket
BucketCloses(tf, ts) ==
    CASE tf = "5m" -> (Hour(ts) * 60 + Minute(ts) + 1) % 5 = 0
      [] tf = "15m" -> (Hour(ts) * 60 + Minute(ts) + 1) % 15 = 0
      [] tf = "1h" -> Minute(ts) = 59
      [] tf = "4h" -> (Hour(ts) * 60 + Minute(ts) + 1) % 240 = 0
      [] tf = "1d" -> Hour(ts) = 23 /\ Minute(ts) = 59
      [] tf = "1w" -> ts % 10080 = 10079

\* the fed candles (by index) on which tf completed
CompletionIndexes(tf) == {i \in 1..Len(a_fed) : BucketCloses(tf, a_fed[i].timestamp)}

\* the k-th smallest member of a set of indexes
NthIndex(S, k) == CHOOSE i \in S : Cardinality({j \in S : j <= i}) = k

\* the 1m candles fed after the previous completion of tf, up to the
\* completion on the i-th fed candle
Constituents(tf, i) ==
    LET before == {j \in CompletionIndexes(tf) : j < i}
        prev == IF before = {} THEN 0 ELSE CHOOSE j \in before : \A l \in before : l <= j
    IN  SubSeq(a_fed, prev + 1, i)

RECURSIVE SumVolume(_)
SumVolume(cs) == IF cs = <<>> THEN 0 ELSE Head(cs).volume + SumVolume(Tail(cs))

Aggregates(h, cs) ==
    /\ h.open = cs[1].open
    /\ h.close = cs[Len(cs)].close
    /\ \E i \in 1..Len(cs) : h.high = cs[i].high
    /\ \A i \in 1..Len(cs) : h.high >= cs[i].high
    /\ \E i \in 1..Len(cs) : h.low = cs[i].low
    /\ \A i \in 1..Len(cs) : h.low <= cs[i].low
    /\ h.volume = SumVolume(cs)

\* C14: every completed higher-timeframe candle in history has the open of
\* its first 1m constituent, the close of its last, the maximum high, the
\* minimum low and the summed volume, its constituents being the 1m candles
\* fed since the previous completion of that timeframe.
C14_AggregatedCandle ==
    agg # None =>
        \A tf \in Range(Val(agg).timeframes) \ {"1m"} :
            LET h == Val(agg).history[tf]
                done == CompletionIndexes(tf)
                n == Cardinality(done)
            IN  /\ Len(h) <= n
                /\ \A k \in 1..Len(h) :
                      Aggregates(h[k], Constituents(tf, NthIndex(done, n - Len(h) + k)))

\* the first 5m candle of a stream from 00:00 is complete, and its high is
\* the high of neither its first nor its last minute
C14_Witness ==
    /\ agg # None /\ "5m" \in DOMAIN Val(agg).history
    /\ Len(Val(agg).history["5m"]) >= 1
    /\ Len(a_fed) >= 5 /\ a_fed[1].timestamp = 0
    /\ Val(agg).history["5m"][1].timestamp = 0
    /\ Val(agg).history["5m"][1].high > a_fed[1].high
    /\ Val(agg).history["5m"][1].high > a_fed[5].high

\* the stream started on a bucket boundary of tf
StartsOnBoundary(tf) == a_fed[1].timestamp % TF_MINUTES[tf] = 0

MinuteOfDayRule(tf, ts) == (Hour(ts) * 60 + Minute(ts) + 1) % TF_MINUTES[tf] = 0

\* C15 as stated: on a contiguous stream from a bucket boundary an N-minute
\* timeframe has just completed (its in-progress slot is empty) exactly
\* after the candles with (hour*60 + minute + 1) mod N = 0, and after k
\* candles its history holds floor(k / N) candles.
C15_CompletesEveryN ==
    (agg # None /\ a_fed # <<>>) =>
        \A tf \in Range(Val(agg).timeframes) \ {"1m"} :
            StartsOnBoundary(tf) =>
                /\ Val(agg).building[tf] = None
                      <=> MinuteOfDayRule(tf, a_fed[Len(a_fed)].timestamp)
                /\ Len(Val(agg).history[tf]) = Len(a_fed) \div TF_MINUTES[tf]

\* C15, amended: a timeframe of up to one day has just completed exactly
\* after the candles with (hour*60 + minute + 1) mod N = 0, and 1w exactly
\* after Sunday 23:59; on a stream from a bucket boundary the history holds
\* min(floor(k / N), max_history) candles after k candles.
C15_CompletesEveryNBounded ==
    (agg # None /\ a_fed # <<>>) =>
        \A tf \in Range(Val(agg).timeframes) \ {"1m"} :
            /\ tf # "1w" =>
                  (Val(agg).building[tf] = None
                      <=> MinuteOfDayRule(tf, a_fed[Len(a_fed)].timestamp))
            /\ tf = "1w" =>
                  (Val(agg).building[tf] = None
                      <=> a_fed[Len(a_fed)].timestamp % 10080 = 10079)
            /\ (StartsOnBoundary(tf) /\ Val(agg).max_history >= 1) =>
                  Len(Val(agg).history[tf])
                      = Min(Len(a_fed) \div TF_MINUTES[tf], Val(agg).max_history)

\* minutes 0..14 were fed: three 5m candles are complete, none in progress
C15_Witness ==
    /\ agg # None /\ "5m" \in DOMAIN Val(agg).history
    /\ Len(a_fed) = 15 /\ a_fed[1].timestamp = 0
    /\ Len(Val(agg).history["5m"]) = 3
    /\ Val(agg).building["5m"] = None

KnownLabels == {"1m", "5m", "15m", "1h", "4h", "1d", "1w"}

\* C16: an unknown timeframe label is an error at construction and at
\* query: no aggregator exists with an unknown label declared, and
\* get_history, get_timeframe_minutes and get_lower_timeframe raise for an
\* unknown label instead of returning a value.
C16_UnknownLabelRaises ==
    /\ agg # None => Range(Val(agg).timeframes) \subseteq KnownLabels
    /\ a_error = "ValueError" => agg = None
    /\ (q_op # "none" /\ q_label \notin KnownLabels) =>
          (q_error = "ValueError" /\ q_value = None)

\* C17: close_position with an id that matches no open position raises and
\* leaves the portfolio as it was: balance, positions and trades unchanged.
C17_CloseUnknownRaises ==
    [][(/\ pc = "direct" /\ result'.kind = "trade"
        /\ \A p \in Range(portfolio.positions) : p.id # result'.trade.id)
       => (error' = "ValueError" /\ portfolio' = portfolio)]_vars

\* close_position raised on a portfolio that holds another position
C17_Witness ==
    /\ pc = "direct" /\ error = "ValueError" /\ result.kind = "trade"
    /\ portfolio.positions # <<>>
    /\ \A p \in Range(portfolio.positions) : p.id # result.trade.id

\* a call of check_price_update: the only step of the paper client that
\* advances the clock and returns to the client at once
TickStep == pc = "paper" /\ pc' = "paper" /\ now' = now + 1

TickHitsStop(p, price) ==
    IF p.side = "long" THEN price <= p.stop_loss ELSE price >= p.stop_loss

TickHitsTarget(p, price) ==
    IF p.side = "long" THEN price >= p.take_profit ELSE price <= p.take_profit

\* C18: check_price_update(price, portfolio) sets the portfolio's current
\* price, closes exactly the positions whose stop or target the tick reaches
\* (long: price <= SL or price >= TP; short: price >= SL or price <= TP),
\* returns one trade per closed position, leaves the others open, and
\* reports stop_loss when both conditions hold.
C18_TickCloses ==
    [][TickStep =>
       LET price == exec_price'
           Hits(p) == TickHitsStop(p, price) \/ TickHitsTarget(p, price)
           Misses(p) == ~Hits(p)
           closed == SelectSeq(portfolio.positions, Hits)
       IN  /\ error' = "none"
           /\ portfolio'.current_price = price
           /\ portfolio'.positions = SelectSeq(portfolio.positions, Misses)
           /\ portfolio'.trades = portfolio.trades \o tick_trades'
           /\ Len(tick_trades') = Len(closed)
           /\ \A i \in 1..Len(closed) :
                 /\ tick_trades'[i].id = closed[i].id
                 /\ tick_trades'[i].exit_reason =
                        IF TickHitsStop(closed[i], price) THEN "stop_loss"
                        ELSE "take_profit"
                 /\ tick_trades'[i].exit_price =
                        IF TickHitsStop(closed[i], price) THEN closed[i].stop_loss
                        ELSE closed[i].take_profit]_vars

\* a tick closed one of two open positions and left the other open
C18_Witness ==
    /\ pc = "paper" /\ exec_price > 0 /\ error = "none"
    /\ Len(tick_trades) = 1 /\ Len(portfolio.positions) = 1
    /\ portfolio.trades = tick_trades
    /\ portfolio.current_price = exec_price
    /\ ~TickHitsStop(portfolio.positions[1], exec_price)
    /\ ~TickHitsTarget(portfolio.positions[1], exec_price)

\* the ids of the elements of a sequence of positions or trades
IdsOf(seq) == {seq[i].id : i \in 1..Len(seq)}

\* the indexes of the trades recorded for a position
TradeIndexes(pf, id) == {i \in 1..Len(pf.trades) : pf.trades[i].id = id}

\* C19: no double fill: over any sequence of ticks and interleaved closes a
\* position is closed at most once: a tick returns trades only for positions
\* that were open and never closed before, removes them, and no position has
\* two trades or is open after its trade.
C19_NoDoubleFill ==
    /\ [](/\ \A id \in 1..nextId : Cardinality(TradeIndexes(portfolio, id)) <= 1
          /\ IdsOf(portfolio.positions) \cap IdsOf(portfolio.trades) = {})
    /\ [][TickStep =>
            \A i \in 1..Len(tick_trades') :
               /\ tick_trades'[i].id \in IdsOf(portfolio.positions)
               /\ tick_trades'[i].id \notin IdsOf(portfolio.trades)
               /\ tick_trades'[i].id \notin IdsOf(portfolio'.positions)
               /\ \A j \in 1..Len(tick_trades') :
                     tick_trades'[j].id = tick_trades'[i].id => j = i]_vars

\* a position closed by one tick, and a later tick at a price that reaches
\* its levels again returns nothing for it
C19_Witness ==
    /\ pc = "paper" /\ exec_price > 0 /\ tick_trades = <<>>
    /\ \E i \in 1..Len(portfolio.trades) :
          /\ portfolio.trades[i].exit_reason \in {"stop_loss", "take_profit"}
          /\ portfolio.trades[i].exit_time + 2 <= now
          /\ PaperExecutor_check_sl_tp(OpenedById(portfolio.trades[i].id), exec_price)
                 # "none"

\* the largest declared timeframe, in minutes
LargestMinutes ==
    CHOOSE m \in {TF_MINUTES[tf] : tf \in timeframes} :
        \A tf \in timeframes : TF_MINUTES[tf] <= m

\* max(100, largest declared timeframe in minutes)
WarmUpBars == IF LargestMinutes > 100 THEN LargestMinutes ELSE 100

\* the steps of a candle's SL/TP phase, strategy call and signal execution
CandlePcs == {"sltp", "sltp_apply", "strategy", "exec", "exec_apply"}

\* C11: the first max(100, largest declared timeframe in minutes) 1m candles
\* go to the aggregator only: on_candle and the executor are never invoked
\* for them, and on_init is called exactly once, with the snapshot of the
\* last warm-up candle, before the first on_candle.
C11_WarmUpOnlyAggregates ==
    /\ [](pc \in CandlePcs =>
             /\ candle.timestamp >= WarmUpBars
             /\ agg_fed = WarmUpBars + idx
             /\ init_calls = 1
             /\ init_data = MkSnapshot(WarmUpBars - 1, WarmUpBars))
    /\ [](init_calls <= 1 /\ (candle_calls > 0 => init_calls = 1))
    /\ [](pc = "loop" /\ idx = 0 => agg_fed = WarmUpBars /\ candle_calls = 0)
    /\ [][candle_calls' # candle_calls =>
             candle.timestamp >= WarmUpBars /\ init_calls = 1]_vars
    /\ [][(result' # result /\ result' # NoneResult) =>
             candle.timestamp >= WarmUpBars]_vars

\* a 4h strategy: on_candle is about to be called for the first time, on
\* candle 240
C11_Witness ==
    /\ pc = "strategy" /\ idx = 1 /\ candle_calls = 0
    /\ timeframes = {"1m", "4h"}
    /\ candle.timestamp = 240 /\ agg_fed = 241
    /\ init_calls = 1 /\ init_data.latest = 239

\* C12: when the provider returns no candles, or no more than the warm-up
\* needs, run_backtest returns empty results without raising: no trades, an
\* empty equity curve, final_equity equal to the initial balance, and
\* on_candle is never invoked.
C12_NoBacktestCandles ==
    /\ []((pc = "done" /\ n_fetched <= WarmUpBars) =>
             /\ error = "none"
             /\ results = Some([trades |-> <<>>, equity_curve |-> <<>>,
                                initial_balance |-> InitialBalance,
                                final_equity |-> InitialBalance])
             /\ portfolio.trades = <<>>
             /\ candle_calls = 0)
    /\ [][(pc = "init" /\ error' = "none") =>
             (n_fetched' <= WarmUpBars <=> pc' = "done")]_vars

\* a run with persistence whose provider returned exactly the warm-up
C12_Witness ==
    /\ pc = "done" /\ n_fetched = WarmUpBars /\ results # None
    /\ persist /\ portfolio.balance # InitialBalance

\* C13: the equity curve has exactly one point per post-warm-up candle, in
\* order, with the candle's timestamp and the equity sampled after that
\* candle's execution phase; its length is fetched minus warm-up.
C13_EquityCurve ==
    /\ [](pc \in EnginePcs \ {"raised"} =>
             Len(equity_curve) = IF pc \in CandlePcs THEN idx - 1 ELSE idx)
    /\ [](pc \in EnginePcs =>
             \A i \in 1..Len(equity_curve) :
                equity_curve[i].timestamp = WarmUpBars + i - 1)
    /\ []((pc = "loop" /\ idx > 0) =>
             equity_curve[idx] = [timestamp |-> candle.timestamp,
                                  equity |-> Portfolio_equity(portfolio)])
    /\ []((pc = "done" /\ n_fetched > WarmUpBars) =>
             /\ Val(results).equity_curve = equity_curve
             /\ Len(equity_curve) = n_fetched - WarmUpBars)
    /\ [][equity_curve' # equity_curve =>
             /\ pc = "exec" /\ pending = 0
             /\ equity_curve' = Append(equity_curve,
                                       [timestamp |-> candle.timestamp,
                                        equity |-> Portfolio_equity(portfolio)])]_vars

\* a completed run over two candles whose two samples differ, the second
\* taken with a position open
C13_Witness ==
    /\ pc = "done" /\ error = "none" /\ results # None
    /\ Len(equity_curve) = 2
    /\ equity_curve[1].equity # equity_curve[2].equity
    /\ equity_curve[2].equity # portfolio.balance

\* the number of calls of an operation on the database
CountIn(log, op) == Cardinality({i \in 1..Len(log) : log[i] = op})

\* C20: with persistence enabled, every exit of run_backtest after a
\* successful db initialize (normal, empty data, warm-up exhaustion, an
\* exception from the provider, the strategy or the executor) closes the
\* database exactly once, and on normal completion the close comes after
\* the final state save.
C20_DbClosedOnce ==
    []((persist /\ CountIn(db.log, "initialize") > 0) =>
          /\ pc \in {"done", "raised"} =>
                /\ CountIn(db.log, "close") = 1
                /\ db.log[Len(db.log)] = "close"
                /\ db.conn = "none"
          /\ pc \notin {"done", "raised"} =>
                CountIn(db.log, "close") = 0 /\ db.conn = "open"
          /\ (pc = "done" /\ n_fetched > WarmUpBars) =>
                /\ Len(db.log) >= 3
                /\ db.log[Len(db.log) - 2] = "save_portfolio"
                /\ db.log[Len(db.log) - 1] = "save_strategy_state"
                /\ db.portfolio = Some([initial_balance |-> InitialBalance,
                                        balance |-> portfolio.balance]))

\* the executor raised after a position had been saved, and the database
\* was closed
C20_Witness ==
    /\ persist /\ pc = "raised" /\ error = "ExecutorError"
    /\ CountIn(db.log, "save_position") > 0
    /\ CountIn(db.log, "close") = 1 /\ db.conn = "none"

\* C21: after Engine._restore_state the portfolio's open positions are
\* exactly the positions loaded from the store: positions already in memory
\* are discarded rather than kept or duplicated, an empty store yields an
\* empty position list, and a second _restore_state gives the same positions.
C21_RestoreReplaces ==
    /\ [](pc = "restored" =>
             /\ portfolio.positions = db.positions
             /\ (db.positions = <<>> => portfolio.positions = <<>>)
             /\ \A i, j \in 1..Len(portfolio.positions) :
                   portfolio.positions[i].id = portfolio.positions[j].id => i = j)
    /\ [][pc' = "restored" =>
             /\ portfolio'.positions = db.positions
             /\ db' = db
             /\ (pc = "restored" => portfolio' = portfolio)]_vars

\* a restore over a memory that held a position the store does not hold
C21_Witness ==
    /\ pc = "restored" /\ db.positions # <<>>
    /\ \E i \in 1..Len(opened) : opened[i] \notin Range(db.positions)
    /\ portfolio.positions = db.positions

RunPcs == {"init", "loop", "sltp", "sltp_apply", "strategy", "exec", "exec_apply",
           "force", "force_apply", "done", "raised"}

\* C22: an exception that leaves the backtest run is never swallowed: Engine.run
\* passes its type and message to alerter.on_error exactly once (no call when
\* the engine has no alerter) and its caller gets that same exception; a run
\* that returns has alerted nothing.
C22_ErrorAlertedAndReraised ==
    /\ [](pc = "propagated" =>
            /\ outcome = [kind |-> "raised", value |-> error]
            /\ error # "none"
            /\ error_alerts = IF alerter THEN <<error>> ELSE <<>>)
    /\ [](pc \in RunPcs \cup {"run", "returned"} =>
            /\ error_alerts = <<>>
            /\ outcome.kind # "raised")
    /\ [](pc = "returned" => error = "none" /\ outcome.value = results)
    /\ [][pc = "raised" => pc' = "propagated"]_vars
    /\ [][pc = "propagated" => pc' = "propagated"]_vars

C22_Witness ==
    /\ pc = "propagated" /\ executor.kind = "backtest" /\ alerter
    /\ error = "StrategyError" /\ error_alerts = <<"StrategyError">>
    /\ outcome = [kind |-> "raised", value |-> "StrategyError"]

\* C27: in a subscribe call the k-th delay slept since the last successful
\* connection is min(2^(k-1), 60) seconds, a successful connection resets the
\* failure streak and the delay, and the 10th consecutive failure stops the
\* provider (_running false, subscribe returned) with no further sleep or
\* connection attempt.
C27_BackoffSchedule ==
    /\ [](\A k \in 1..Len(sleeps) : sleeps[k] = Min(2^(k - 1), MAX_BACKOFF_S))
    /\ [](pc \in {"l_connecting", "l_listen", "l_callback", "l_sleep"} =>
            /\ consecutive_failures < MAX_CONSECUTIVE_FAILURES
            /\ consecutive_failures <= Len(sleeps)
            /\ Len(sleeps) <= consecutive_failures + 1)
    /\ [](pc = "l_sleep" => backoff = sleeps[Len(sleeps)])
    /\ [](pc = "l_connecting" =>
            backoff = Min(2^Len(sleeps), MAX_BACKOFF_S))
    /\ [][pc = "l_connecting" /\ pc' = "l_listen" =>
            consecutive_failures' = 0 /\ backoff' = INITIAL_BACKOFF_S]_vars
    /\ [][consecutive_failures' = MAX_CONSECUTIVE_FAILURES
            /\ consecutive_failures # MAX_CONSECUTIVE_FAILURES =>
            ~running' /\ pc' = "l_idle" /\ sleeps' = sleeps]_vars
    /\ [](consecutive_failures <= MAX_CONSECUTIVE_FAILURES)

C27_Witness ==
    /\ pc = "l_idle" /\ ~running
    /\ consecutive_failures = MAX_CONSECUTIVE_FAILURES
    /\ sleeps = <<1, 2, 4, 8, 16, 32, 60, 60, 60>>

\* C23 as stated: when the callback of a closed candle raises, the exception
\* is caught, an error alert is sent, and the listener waits for the next
\* message.
C23_CallbackErrorAlerted ==
    [][callback_errors' = callback_errors + 1 =>
        /\ Len(error_alerts') = Len(error_alerts) + 1
        /\ pc' = "l_listen"]_vars

\* C26: the per-candle steps never overlap. The backtest loop starts candle
\* i+1 only from the top of the loop, when the step of candle i has left no
\* signal, no position to check and no executor result behind and has
\* recorded its equity point; the listener hands a closed candle to the
\* callback only when no callback call is in progress.
C26_StepsDoNotOverlap ==
    /\ [][idx' # idx =>
            /\ pc = "loop" /\ pc' = "sltp"
            /\ idx' = idx + 1
            /\ Len(equity_curve) = idx
            /\ pending = 0 /\ snapshot = <<>> /\ result = NoneResult]_vars
    /\ [](in_flight <= 1)
    /\ [](in_flight = 1 <=> pc = "l_callback")
    /\ [](\A k \in 1..Len(delivered) : delivered[k].busy = 0)
    /\ [][Len(delivered') > Len(delivered) => pc = "l_listen" /\ in_flight = 0]_vars

C26_Witness ==
    /\ Len(delivered) = 2 /\ pc = "l_callback" /\ in_flight = 1

\* C28 as stated: the cvd of every closed candle handed to the callback is
\* the signed volume of the closed candles of its timeframe since the last
\* unsubscribe.
C28_CvdSinceUnsubscribe ==
    [][Len(delivered') > Len(delivered) =>
        LET d == delivered'[Len(delivered')]
        IN  d.candle.cvd = cvd_sum'[d.tf]]_vars

\* C24 as stated: Engine.run with a PaperExecutor completes without raising,
\* returns None, and has subscribed the data provider exactly once.
C24_PaperRunReturnsNone ==
    (executor.kind = "paper" /\ pc \in {"returned", "propagated"}) =>
        /\ outcome = [kind |-> "returned", value |-> "None"]
        /\ subscribe_calls = 1

\* C25 as stated: the engine's portfolio is created with the initial_balance
\* of the executor, whichever executor it is.
C25_PortfolioBalanceFromExecutor ==
    pc = "run" => portfolio.initial_balance = executor.initial_balance

\* the portfolio on_candle received holds only positions whose ids had been
\* issued when it was called
SeenByOnCandle(id) == id <= known_ids

\* C29 as stated: a position that a signal closes on the candle on which it
\* was opened was open in the portfolio the on_candle call of that candle saw.
C29_SeenInsideOnCandle ==
    (pc = "exec_apply" /\ result.kind = "trade"
        /\ result.trade.entry_time = current_time) =>
        SeenByOnCandle(result.trade.id)

\* C29, amended: the signals of one on_candle call are executed after the
\* call returned, so a position one of them opens was not in the portfolio
\* the call saw; the engine adds it to the portfolio before the next signal
\* is executed, and a close signal that follows (one without an id closes
\* the oldest open position) closes it on the same candle.
C29_ClosedOnSameCandle ==
    /\ [](pc = "exec_apply" /\ result.kind = "position" =>
            /\ ~SeenByOnCandle(result.position.id)
            /\ result.position.entry_time = candle.timestamp)
    /\ [][(pc = "exec_apply" /\ result.kind = "position") =>
            /\ pc' = "exec"
            /\ portfolio'.positions = Append(portfolio.positions, result.position)]_vars
    /\ [][(pc = "exec" /\ pc' = "exec_apply" /\ cur_signal'.direction = "close"
             /\ cur_signal'.position_id = None /\ portfolio.positions # <<>>) =>
            /\ result'.kind = "trade"
            /\ result'.trade.id = portfolio.positions[1].id
            /\ result'.trade.exit_time = candle.timestamp]_vars

C29_Witness ==
    /\ pc = "exec_apply" /\ result.kind = "trade"
    /\ result.trade.entry_time = current_time
    /\ result.trade.exit_time = current_time
    /\ ~SeenByOnCandle(result.trade.id)

\* a trade without the id of its position
Unnamed(trade) == [trade EXCEPT !.id = 0]

DistinctIds(seq) == \A i, j \in 1..Len(seq) : seq[i].id = seq[j].id => i = j

\* C33: in a backtest every position yields at most one trade: the ids of the
\* ledger are pairwise distinct, the ids of the open positions are pairwise
\* distinct, and no id is open and in the ledger at once; a close signal for
\* a position that already has its trade is answered with None.
C33_AtMostOneTrade ==
    /\ pc \in EnginePcs =>
          /\ DistinctIds(portfolio.trades)
          /\ DistinctIds(portfolio.positions)
          /\ IdsOf(portfolio.positions) \cap IdsOf(portfolio.trades) = {}
    /\ (/\ pc = "exec_apply" /\ cur_signal.direction = "close"
        /\ cur_signal.position_id # None
        /\ Val(cur_signal.position_id) \in IdsOf(portfolio.trades))
       => result = NoneResult

\* a second close signal for a position closed by a signal on this candle
C33_Witness ==
    /\ pc = "exec_apply" /\ cur_signal.direction = "close"
    /\ cur_signal.position_id # None
    /\ \E t \in Range(portfolio.trades) :
          /\ t.id = Val(cur_signal.position_id)
          /\ t.exit_reason = "signal" /\ t.exit_time = candle.timestamp

\* C34: a position opened by a signal on candle i is first examined by the
\* SL/TP phase of candle i+1: the positions the phase visits were entered
\* before its candle, and every stop_loss or take_profit trade exits strictly
\* later than it entered, also when the range of candle i reaches the stop
\* or the target.
C34_NoSlTpOnEntryCandle ==
    pc \in EnginePcs =>
        /\ \A t \in Range(portfolio.trades) :
              t.exit_reason \in {"stop_loss", "take_profit"} => t.exit_time > t.entry_time
        /\ pc \in {"sltp", "sltp_apply"} =>
              \A p \in Range(snapshot) : p.entry_time < candle.timestamp

\* the candle's step is over and a position it opened is still open although
\* the candle's range reaches its stop
C34_Witness ==
    /\ pc = "loop" /\ idx >= 1
    /\ \E p \in Range(portfolio.positions) :
          p.entry_time = candle.timestamp /\ SLTPMonitor_sl_hit(p, candle)

\* C37 as stated: every SL/TP exit is priced inside the range of the candle
\* that triggered it.
C37_ExitWithinCandleRange ==
    pc = "sltp_apply" =>
        /\ candle.low <= result.trade.exit_price
        /\ result.trade.exit_price <= candle.high

\* C37: every SL/TP exit is priced at the position's own stop or target
\* level, and the candle reached that level from the side the monitor tests:
\* low <= exit_price for a long stop and a short target, exit_price <= high
\* for a long target and a short stop.
C37_ExitAtReachedLevel ==
    pc = "sltp_apply" =>
        LET position == Head(snapshot)
            trade == result.trade
            low_side == (position.side = "long") = (trade.exit_reason = "stop_loss")
        IN  /\ trade.exit_reason \in {"stop_loss", "take_profit"}
            /\ trade.exit_price = IF trade.exit_reason = "stop_loss"
                                  THEN position.stop_loss ELSE position.take_profit
            /\ low_side => candle.low <= trade.exit_price
            /\ ~low_side => trade.exit_price <= candle.high

\* a candle that trades wholly beyond the level it triggers
C37_Witness ==
    /\ pc = "sltp_apply" /\ candle.low <= candle.high
    /\ \/ result.trade.exit_price > candle.high
       \/ result.trade.exit_price < candle.low

\* C36 as stated: the free balance of a backtest is never negative.
C36_BalanceNonNegative == pc \in EnginePcs => portfolio.balance >= 0

\* C36: accepting an open signal never drives the free balance below zero,
\* and the balance is non-negative as long as no closed trade lost more than
\* its locked notional.
C36_BalanceCoversOpens ==
    /\ pc \in EnginePcs =>
          ((\A t \in Range(portfolio.trades) : t.pnl >= -t.size_usd)
              => portfolio.balance >= 0)
    /\ (pc = "exec_apply" /\ result.kind = "position") =>
          /\ result.position.size_usd <= portfolio.balance
          /\ result.position.size_usd > 0

\* an open signal is accepted although an earlier trade lost money, and it
\* takes the whole free balance
C36_Witness ==
    /\ pc = "exec_apply" /\ result.kind = "position"
    /\ result.position.size_usd = portfolio.balance
    /\ \E t \in Range(portfolio.trades) : t.pnl < 0

\* C35: in a persisted run every position id that was saved to the store is
\* in the positions table or in the trades table, at every point where the
\* process could stop: no closed position's row is deleted while its trade
\* is not yet saved.
C35_SavedIdsStayStored ==
    persist =>
        (IdsOf(opened) \cup IdsOf(portfolio.trades))
            \subseteq (IdsOf(db.positions) \cup IdsOf(db.trades))

\* C39: after _restore_state has loaded what an earlier run persisted, and at
\* every later point of the new run, balance + (size_usd of the open
\* positions) = initial_balance + (pnl of the trades in portfolio.trades).
C39_RestoredStateConsistent ==
    (persist /\ pc \in EnginePcs \ {"init"}) =>
        portfolio.balance + SumSizeUsd(portfolio.positions)
            = portfolio.initial_balance + SumPnl(portfolio.trades)

\* C38: every candle in the completed history of a higher timeframe covers a
\* full bucket: it aggregates exactly N consecutive 1m candles and its
\* timestamp is the first minute of the bucket, wherever the stream started.
C38_FullBuckets ==
    agg # None =>
        \A tf \in Range(Val(agg).timeframes) \ {"1m"} :
            LET h == Val(agg).history[tf]
                done == CompletionIndexes(tf)
                n == Cardinality(done)
            IN  \A k \in 1..Len(h) :
                    LET cs == Constituents(tf, NthIndex(done, n - Len(h) + k))
                    IN  /\ Len(cs) = TF_MINUTES[tf]
                        /\ \A i \in 1..Len(cs) : cs[i].timestamp = cs[1].timestamp + i - 1
                        /\ h[k].timestamp = cs[1].timestamp
                        /\ h[k].timestamp % TF_MINUTES[tf] = 0

\* the k most recent members of a sequence, in order
Newest(seq, k) == SubSeq(seq, Len(seq) - Min(k, Len(seq)) + 1, Len(seq))

\* C40: after any number of update and warm_up calls the history of each
\* timeframe holds at most max_history candles, and they are the most recent
\* max_history completed candles in order.
C40_HistoryBounded ==
    agg # None =>
        \A tf \in Range(Val(agg).timeframes) :
            LET h == Val(agg).history[tf]
                m == Val(agg).max_history
            IN  /\ Len(h) <= m
                /\ tf = "1m" => h = Newest(a_fed, m)
                /\ tf # "1m" => Len(h) = Min(Cardinality(CompletionIndexes(tf)), m)

\* a quotient within [0, 1]
InUnitInterval(r) == r.den > 0 /\ 0 <= r.num /\ r.num <= r.den

\* C31: for every trade list and every equity curve calculate_win_rate is
\* within [0, 1], calculate_profit_factor is non-negative or infinity, and
\* calculate_max_drawdown is within [0, 1].
C31_MetricsInRange ==
    report # None =>
        /\ InUnitInterval(Val(report).win_rate)
        /\ \/ Val(report).profit_factor = Infinity
           \/ Val(report).profit_factor.den > 0 /\ Val(report).profit_factor.num >= 0
        /\ InUnitInterval(Val(report).max_drawdown)

\* C32: transient errors of the historical fetch are retried within a
\* bounded budget and become fatal once it is exhausted: whatever the
\* exchange answers, _fetch_from_exchange comes to an end, by returning or
\* by raising.
C32_FetchTerminates == <>(pc \in {"f_returned", "f_raised"})

====
